---- MODULE Spec2Model ----
(***************************************************************************)
(* The video-generation pipeline of voicefront: VideoGenerator             *)
(* (generateVideo, validate, waitForVideoWithHistory), the two provider    *)
(* clients it drives (AssemblyAIService, HeyGenService) and the IndexedDB  *)
(* history store (VideoHistoryManager).                                    *)
(*                                                                         *)
(* An async function is modelled by one action per stretch of code between *)
(* two suspension points (await): a remote call or a store request is      *)
(* issued at the end of one action and its completion starts the next.     *)
(* The providers and the store engine are the environment: each completion *)
(* draws its outcome (success payload, transport error, non-success HTTP   *)
(* response, store request error) nondeterministically.                    *)
(*                                                                         *)
(* JavaScript values: null and undefined are the strings NULL and          *)
(* UNDEFINED; the number 0 of a duration is the string ZERO; a || b is     *)
(* Or(a, b).                                                               *)
(***************************************************************************)
EXTENDS Integers, Sequences, FiniteSets, TLC

\* ------------------------------------------------------------------ bounds

\* generateVideo invocations in one behaviour
MaxRuns == 1
\* value of `attempts` up to which a status poll may still fail or be non-terminal
MaxAttempts == 3
\* transcription polls that may return a non-terminal status
MaxTranscriptPolls == 1
\* calls made directly on the history store in one behaviour
MaxCalls == 3

\* --------------------------------------------------------------- JS values

NULL == "null"
UNDEFINED == "undefined"
ZERO == "0"

Falsy(x) == x \in {NULL, UNDEFINED, "", ZERO}

\* a || b
Or(a, b) == IF Falsy(a) THEN b ELSE a

\* ------------------------------------------------------- the environment

\* the blob VoiceRecorder.onstop builds
Blob == "blob"

\* null, where an avatar, a character or a voice object is expected
NoAvatar == [avatar_id |-> NULL, avatar_name |-> NULL, avatar_style |-> NULL]

NoCharacter == [id |-> NULL, name |-> NULL, heygenId |-> NULL]

NoVoice == [voice_id |-> NULL, voice_name |-> NULL]

\* preset avatars loaded by AvatarSelector.loadPresetAvatars
Avatars == {[avatar_id |-> "av1", avatar_name |-> "Anna", avatar_style |-> UNDEFINED]}

\* custom characters of CharacterManager.characters (each saved with a heygenId)
Characters == {[id |-> "1", name |-> "Hero", heygenId |-> "img1"]}

\* preset voices loaded by VoiceSelector.loadPresetVoices
Voices == {[voice_id |-> "v1", voice_name |-> "Vera"]}

\* the preset list with a second voice, for the wizard on its own (a run does
\* the same whichever voice it was given)
PresetVoices == Voices \cup {[voice_id |-> "v2", voice_name |-> "Will"]}

\* texts the transcription provider can return with status 'completed'
Texts == {"", "hello"}

\* data.data of the status endpoint for a completed video
CompletedResponses ==
    { [status |-> "completed", video_url |-> "u1", thumbnail_url |-> "th1", duration |-> "7"],
      [status |-> "completed", video_url |-> "u2", thumbnail_url |-> "th2", duration |-> ZERO] }

ProcessingResponse ==
    [status |-> "processing", video_url |-> NULL, thumbnail_url |-> NULL, duration |-> NULL]

FailedResponse ==
    [status |-> "failed", video_url |-> NULL, thumbnail_url |-> NULL, duration |-> NULL]

NoResponse ==
    [status |-> NULL, video_url |-> NULL, thumbnail_url |-> NULL, duration |-> NULL]

\* error.message of a rejected fetch (a transport error; Chrome's wording)
FetchFailed == "Failed to fetch"

\* error.message of a rejected fetch as the engines word it: Chromium,
\* Firefox, WebKit
TransportErrors ==
    {FetchFailed, "NetworkError when attempting to fetch resource.", "Load failed"}

\* error.message of a rejected IndexedDB request (request.error)
StoreRequestError == "QuotaExceededError"

\* --------------------------------------------------------------- the state

VARIABLES
    audioBlob,          \* VoiceRecorder.audioBlob
    selectedAvatar,     \* AvatarSelector.selectedAvatar
    selectedCharacter,  \* CharacterManager.selectedCharacter
    selectedVoice,      \* VoiceSelector.selectedVoice
    useCustomVoice,     \* VoiceSelector.useCustomVoice
    pc,                 \* where generateVideo is suspended
    voiceSelection,     \* generateVideo: const voiceSelection
    transcript,         \* generateVideo: let transcript
    voiceConfig,        \* generateVideo: let voiceConfig
    persona,            \* generateVideo: avatar, character, characterConfig, avatarName
    videoId,            \* generateVideo: const videoId (and this.currentVideoId)
    attempts,           \* waitForVideoWithHistory: let attempts
    status,             \* waitForVideoWithHistory: const status (the last poll response)
    transcriptResp,     \* getTranscript: let transcript (the last poll response)
    videos,             \* the 'videos' object store
    nextKey,            \* the object store's key generator (autoIncrement)
    now,                \* the clock read by new Date()
    remote,             \* the render job's status at the provider
    nextVideo,          \* how many render jobs the provider has accepted
    request,            \* the video_inputs[0] of the last render submission
    calls,              \* remote calls issued by the current run, by endpoint
    storeOps,           \* store requests of the current run: issued and succeeded
    polled,             \* poll outcomes seen by the current run, by kind
    reply,              \* the last completion delivered to the run: which call, how it ended
    modal,              \* LoadingModal: the status text shown
    alertMsg,           \* the last alert() of a failed validation
    outcome,            \* how the current run ended
    shownVideo,         \* displayVideo: currentVideoUrl
    runs,               \* generateVideo invocations so far
    transcription,      \* getTranscript: audioUrl, transcriptId, and what was last sent
    wait,               \* HeyGenService.waitForVideo: its locals, position and result
    asset,              \* HeyGenService.uploadAsset: the request it sends and its result
    characterDb,        \* the 'characters' object store (keyPath id)
    nextCharacterId,    \* its key generator (autoIncrement)
    characters,         \* CharacterManager.characters
    charCalls,          \* calls of the character manager and its storage, running and settled
    recorder,           \* VoiceRecorder: isRecording, startTime, its pending timeouts
    apiLog              \* VideoHistoryManager calls made directly, with their results

ui == <<audioBlob, selectedAvatar, selectedCharacter, selectedVoice, useCustomVoice>>

locals == <<voiceSelection, transcript, voiceConfig, persona, videoId, attempts,
            status, transcriptResp>>

store == <<videos, nextKey, now>>

provider == <<remote, nextVideo, request>>

ghost == <<calls, storeOps, polled, reply>>

shown == <<modal, alertMsg, outcome, shownVideo>>

characterStore == <<characterDb, nextCharacterId, characters, charCalls>>

aside == <<characterStore, recorder>>

helpers == <<wait, asset, aside>>

vars == <<ui, pc, locals, store, provider, ghost, shown, runs, transcription, helpers,
          apiLog>>

\* ------------------------------------------------------------ initial state

\* null, as getSelectedVoice returns it
NoVoiceSelection == [type |-> NULL, voice |-> NoVoice]

NoVoiceConfig == [type |-> NULL, voice_id |-> NULL, audio_asset_id |-> NULL]

NoCharacterConfig == [type |-> UNDEFINED, photo_id |-> UNDEFINED, avatar_id |-> UNDEFINED,
                      avatar_style |-> UNDEFINED]

NoPersona == [avatar |-> NoAvatar, character |-> NoCharacter,
              characterConfig |-> NoCharacterConfig, avatarName |-> ""]

NoCalls == [uploadAudio |-> 0, submitTranscription |-> 0, pollTranscription |-> 0,
            uploadAsset |-> 0, createVideo |-> 0, getVideoStatus |-> 0]

NoStoreOps == [addVideo |-> 0, added |-> 0, updateVideo |-> 0, updated |-> 0]

NoPolled == [error |-> 0, processing |-> 0, completed |-> 0, failed |-> 0]

NoOutcome == [kind |-> "none", message |-> NULL, stage |-> NULL]

NoReply == [to |-> NULL, result |-> NULL, error |-> NULL]

HiddenModal == [text |-> NULL, elapsed |-> 0]

NoRequestVoice == [type |-> UNDEFINED, voice_id |-> UNDEFINED, input_text |-> UNDEFINED,
                   audio_asset_id |-> UNDEFINED]

NoRequest == [character |-> NoCharacterConfig, voice |-> NoRequestVoice]

NoTranscriptResponse == [status |-> NULL, text |-> NULL, error |-> NULL]

\* waitForVideo has not been called
NoWait == [pc |-> "idle", videoId |-> UNDEFINED, attempts |-> 0, polls |-> 0,
           progress |-> 0, remote |-> NULL, returned |-> UNDEFINED, thrown |-> UNDEFINED]

\* uploadAsset has not been called
NoAsset == [pc |-> "idle", type |-> UNDEFINED, blobType |-> UNDEFINED,
            contentType |-> UNDEFINED, returned |-> UNDEFINED, thrown |-> UNDEFINED]

\* VoiceRecorder's constructor (lines 125-133), with the page's clock, the
\* timeouts it has pending, and how the last recording was stopped
NoStop == [recording |-> 0, by |-> NULL, armedBy |-> 0, ran |-> 0]

NoRecorder == [stream |-> FALSE, isRecording |-> FALSE, startTime |-> 0,
               recording |-> 0, initPending |-> 0, timeouts |-> {},
               clock |-> 0, lastStop |-> NoStop, ignored |-> NULL]

\* getTranscript is not running: no URL, no id, nothing sent
NoTranscription == [audioUrl |-> UNDEFINED, transcriptId |-> UNDEFINED,
                    audio_url |-> UNDEFINED, polledId |-> UNDEFINED]

LocalsInit ==
    /\ voiceSelection = NoVoiceSelection
    /\ transcript = NULL
    /\ voiceConfig = NoVoiceConfig
    /\ persona = NoPersona
    /\ videoId = NULL
    /\ attempts = 0
    /\ status = NoResponse
    /\ transcriptResp = NoTranscriptResponse

Init ==
    /\ audioBlob = NULL
    /\ selectedAvatar = NoAvatar
    /\ selectedCharacter = NoCharacter
    /\ selectedVoice = NoVoice
    /\ useCustomVoice = FALSE
    /\ pc = "idle"
    /\ LocalsInit
    /\ videos = {}
    /\ nextKey = 1
    /\ now = 0
    /\ remote = NULL
    /\ nextVideo = 1
    /\ request = NoRequest
    /\ calls = NoCalls
    /\ storeOps = NoStoreOps
    /\ polled = NoPolled
    /\ reply = NoReply
    /\ modal = HiddenModal
    /\ alertMsg = NULL
    /\ outcome = NoOutcome
    /\ shownVideo = NULL
    /\ runs = 0
    /\ transcription = NoTranscription
    /\ wait = NoWait
    /\ asset = NoAsset
    /\ characterDb = {}
    /\ nextCharacterId = 1
    /\ characters = <<>>
    /\ charCalls = <<>>
    /\ recorder = NoRecorder
    /\ apiLog = <<>>

\* ------------------------------------------------------- the wizard's inputs
\* The selections are made in the wizard's steps, while no generation is
\* running (the loading modal covers the page during a run).

Frame == UNCHANGED <<apiLog, helpers, transcription, pc, locals, store, provider, ghost, shown, runs>>

\* VoiceRecorder: mediaRecorder.onstop
RecordingComplete ==
    /\ pc = "idle"
    /\ audioBlob' = Blob
    /\ UNCHANGED <<selectedAvatar, selectedCharacter, selectedVoice, useCustomVoice>>
    /\ Frame

\* VoiceRecorder: reset (App.createAnother)
RecorderReset ==
    /\ pc = "idle"
    /\ audioBlob' = NULL
    /\ UNCHANGED <<selectedAvatar, selectedCharacter, selectedVoice, useCustomVoice>>
    /\ Frame

selectAvatar(avatar) ==
    /\ pc = "idle"
    /\ selectedAvatar' = avatar
    /\ UNCHANGED <<audioBlob, selectedCharacter, selectedVoice, useCustomVoice>>
    /\ Frame

selectCharacter(character) ==
    /\ pc = "idle"
    /\ selectedCharacter' = character
    /\ UNCHANGED <<audioBlob, selectedAvatar, selectedVoice, useCustomVoice>>
    /\ Frame

\* CharacterManager.deleteCharacter: the character is removed from storage,
\* and deselected when it is the selected one
deleteCharacter(id) ==
    /\ pc = "idle"
    /\ selectedCharacter' = IF selectedCharacter.id = id THEN NoCharacter
                            ELSE selectedCharacter
    /\ UNCHANGED <<audioBlob, selectedAvatar, selectedVoice, useCustomVoice>>
    /\ Frame

selectVoice(voice) ==
    /\ pc = "idle"
    /\ selectedVoice' = voice
    /\ useCustomVoice' = FALSE
    /\ UNCHANGED <<audioBlob, selectedAvatar, selectedCharacter>>
    /\ Frame

toggleCustomVoice(useCustom) ==
    /\ pc = "idle"
    /\ useCustomVoice' = useCustom
    /\ UNCHANGED <<audioBlob, selectedAvatar, selectedCharacter, selectedVoice>>
    /\ Frame

\* a getSelectedVoice that takes the second voice of the list for custom mode
getSelectedVoiceCustomSticks ==
    IF useCustomVoice \/ selectedVoice.voice_id = "v2"
    THEN [type |-> "custom", voice |-> NoVoice]
    ELSE IF selectedVoice # NoVoice THEN [type |-> "preset", voice |-> selectedVoice]
    ELSE NoVoiceSelection

getSelectedVoice ==
    IF useCustomVoice THEN [type |-> "custom", voice |-> NoVoice]
    ELSE IF selectedVoice # NoVoice THEN [type |-> "preset", voice |-> selectedVoice]
    ELSE NoVoiceSelection

\* ------------------------------------------------------------- the store
\* VideoHistoryManager over the 'videos' object store: keyPath 'id' with
\* autoIncrement, and a unique index on 'videoId'.

\* instants the clock can show, in milliseconds since the epoch
Times == 0 .. 999

\* Date.prototype.toISOString for an instant of the epoch's first second
toISOString(t) ==
    "1970-01-01T00:00:00."
        \o (IF t < 10 THEN "00" ELSE IF t < 100 THEN "0" ELSE "")
        \o ToString(t) \o "Z"

\* new Date(string) - 0: the instant an ISO string denotes, NaN for any other string
NaN == -1

DateParse(string) ==
    IF \E t \in Times : toISOString(t) = string
    THEN CHOOSE t \in Times : toISOString(t) = string
    ELSE NaN

\* addVideo with a duration that defaults to 0
NewVideoZeroDuration(videoData, createdAt) ==
    [ videoId |-> videoData.videoId,
      videoUrl |-> Or(videoData.videoUrl, NULL),
      status |-> Or(videoData.status, "processing"),
      createdAt |-> toISOString(createdAt),
      avatarId |-> Or(videoData.avatarId, NULL),
      avatarName |-> Or(videoData.avatarName, NULL),
      voiceType |-> Or(videoData.voiceType, NULL),
      voiceName |-> Or(videoData.voiceName, NULL),
      transcript |-> Or(videoData.transcript, NULL),
      duration |-> Or(videoData.duration, ZERO),
      thumbnailUrl |-> Or(videoData.thumbnailUrl, NULL) ]

\* addVideo: the object it builds from videoData
NewVideo(videoData, createdAt) ==
    [ videoId |-> videoData.videoId,
      videoUrl |-> Or(videoData.videoUrl, NULL),
      status |-> Or(videoData.status, "processing"),
      createdAt |-> toISOString(createdAt),
      avatarId |-> Or(videoData.avatarId, NULL),
      avatarName |-> Or(videoData.avatarName, NULL),
      voiceType |-> Or(videoData.voiceType, NULL),
      voiceName |-> Or(videoData.voiceName, NULL),
      transcript |-> Or(videoData.transcript, NULL),
      duration |-> Or(videoData.duration, NULL),
      thumbnailUrl |-> Or(videoData.thumbnailUrl, NULL) ]

\* objectStore.add(video): the key generator sets the keyPath 'id'
Stored(video, key) ==
    [f \in DOMAIN video \cup {"id"} |-> IF f = "id" THEN key ELSE video[f]]

\* an index on videoId that is not unique
IndexNotUnique(video) == FALSE

\* objectStore.add fails on the unique index (a record without videoId is not indexed)
IndexConflict(video) ==
    /\ video.videoId # UNDEFINED
    /\ \E v \in videos : v.videoId = video.videoId

\* index.get(videoId): the records the index holds under that key
IndexGet(id) == {v \in videos : v.videoId = id /\ id # UNDEFINED}

\* the record rebuilt from the updates: only its keys survive
AssignReplaces(video, updates) ==
    [f \in DOMAIN video |-> IF f \in DOMAIN updates THEN updates[f]
                            ELSE IF f \in {"id", "videoId"} THEN video[f] ELSE NULL]

\* Object.assign(video, updates)
Assign(video, updates) ==
    [f \in DOMAIN video |-> IF f \in DOMAIN updates THEN updates[f] ELSE video[f]]

\* a put that reports success without writing the record
PutDropped(video) == videos

\* a put that stores the record beside the one it should replace
PutAppends(video) ==
    videos \cup {[video EXCEPT !.id = video.id + Cardinality(videos)]}

\* objectStore.put(video): replaces the record with the same key
Put(video) == {v \in videos : v.id # video.id} \cup {video}

\* updates that leave the thumbnail of a completed video out
UpdatesForWithoutThumbnail(response) ==
    IF response.status = "completed"
    THEN [ status |-> "completed",
           videoUrl |-> response.video_url,
           duration |-> response.duration ]
    ELSE [ status |-> "failed" ]

\* updateVideo: the updates waitForVideoWithHistory passes for a poll response
UpdatesFor(response) ==
    IF response.status = "completed"
    THEN [ status |-> "completed",
           videoUrl |-> response.video_url,
           thumbnailUrl |-> response.thumbnail_url,
           duration |-> response.duration ]
    ELSE [ status |-> "failed" ]

\* ------------------------------------------------- the store's interface
\* Calls made on videoHistoryManager one after the other, by any caller. Each
\* method runs in one IndexedDB transaction, so a call is one step. The
\* engine is taken to work: a request fails only for the reason the call
\* itself gives it (a violated unique index, a record that is not there).

\* job ids callers pass
JobIds == {"j1", "j2"}

\* the job a caller can hand to addVideo as it is submitted
SubmittedJob(id) ==
    [ videoId |-> id, status |-> "processing", avatarId |-> "av1", avatarName |-> "Anna",
      voiceType |-> "preset", voiceName |-> "Vera", transcript |-> "hello",
      videoUrl |-> UNDEFINED, duration |-> UNDEFINED, thumbnailUrl |-> UNDEFINED,
      createdAt |-> UNDEFINED ]

\* a finished job with a creation time of its own, no speech and no length
FinishedJob(id) ==
    [ videoId |-> id, status |-> "completed", avatarId |-> "img1", avatarName |-> "Hero",
      voiceType |-> "custom", voiceName |-> "Custom Voice", transcript |-> "",
      videoUrl |-> "u1", duration |-> ZERO, thumbnailUrl |-> "th1",
      createdAt |-> toISOString(500) ]

VideoDatas == {SubmittedJob(id) : id \in JobIds} \cup {FinishedJob(id) : id \in JobIds}

\* the updates callers pass
Updates ==
    { [status |-> "completed", videoUrl |-> "u2", thumbnailUrl |-> "th2", duration |-> "7"],
      [status |-> "failed"],
      [createdAt |-> toISOString(0)],
      [videoId |-> "j2"] }

\* the argument of deleteVideo: a number (an internal key) or a string (a job id)
DeleteArgs ==
    { [type |-> "number", value |-> k] : k \in 1 .. nextKey }

JobIdArgs == { [type |-> "string", value |-> id] : id \in JobIds }

\* the call just made is appended to the log with its outcome
Logged(op, arg, error, result) ==
    apiLog' = Append(apiLog, [op |-> op, arg |-> arg, error |-> error, result |-> result])

\* objectStore.put fails on the unique index when another record holds the videoId
PutConflict(video) ==
    /\ video.videoId # UNDEFINED
    /\ \E v \in videos : v.id # video.id /\ v.videoId = video.videoId

Page == <<ui, pc, locals, provider, ghost, shown, runs, transcription>>

Pipeline == <<Page, helpers>>

\* the log entry of the call just made
Called == apiLog[Len(apiLog)]

addVideo(videoData) ==
    /\ Len(apiLog) < MaxCalls
    /\ UNCHANGED Pipeline
    /\ \E createdAt \in {now, now + 1} :
         LET video == NewVideo(videoData, createdAt) IN
         IF IndexConflict(video)
         THEN /\ createdAt = now
              /\ Logged("addVideo", videoData, "ConstraintError", UNDEFINED)
              /\ UNCHANGED store
         ELSE /\ videos' = videos \cup {Stored(video, nextKey)}
              /\ nextKey' = nextKey + 1
              /\ now' = createdAt
              /\ Logged("addVideo", videoData, NULL, nextKey)

\* an update that resolves without a word when the record is not there
updateVideoResolvesOnMissing(id, updates) ==
    /\ Len(apiLog) < MaxCalls
    /\ UNCHANGED Pipeline
    /\ UNCHANGED <<nextKey, now>>
    /\ Logged("updateVideo", [videoId |-> id, updates |-> updates], NULL, UNDEFINED)
    /\ videos' = IF IndexGet(id) = {} THEN videos
                 ELSE Put(Assign(CHOOSE v \in IndexGet(id) : TRUE, updates))

\* an update that stores the changed record under a new key
updateVideoRekeys(id, updates) ==
    /\ Len(apiLog) < MaxCalls
    /\ UNCHANGED <<Pipeline, now>>
    /\ IF IndexGet(id) = {}
       THEN /\ Logged("updateVideo", [videoId |-> id, updates |-> updates],
                      "Video not found", UNDEFINED)
            /\ UNCHANGED <<videos, nextKey>>
       ELSE LET video == CHOOSE v \in IndexGet(id) : TRUE IN
            /\ Logged("updateVideo", [videoId |-> id, updates |-> updates], NULL, UNDEFINED)
            /\ videos' = (videos \ {video})
                            \cup {[Assign(video, updates) EXCEPT !.id = nextKey]}
            /\ nextKey' = nextKey + 1

updateVideo(id, updates) ==
    /\ Len(apiLog) < MaxCalls
    /\ UNCHANGED Pipeline
    /\ UNCHANGED <<nextKey, now>>
    /\ IF IndexGet(id) = {}
       THEN /\ Logged("updateVideo", [videoId |-> id, updates |-> updates],
                      "Video not found", UNDEFINED)
            /\ UNCHANGED videos
       ELSE LET video == Assign(CHOOSE v \in IndexGet(id) : TRUE, updates) IN
            IF PutConflict(video)
            THEN /\ Logged("updateVideo", [videoId |-> id, updates |-> updates],
                           "ConstraintError", UNDEFINED)
                 /\ UNCHANGED videos
            ELSE /\ Logged("updateVideo", [videoId |-> id, updates |-> updates],
                           NULL, UNDEFINED)
                 /\ videos' = Put(video)

\* objectStore.getAll(): the records in ascending order of their keys
RECURSIVE KeyOrder(_)
KeyOrder(records) ==
    IF records = {} THEN <<>>
    ELSE LET first == CHOOSE v \in records : \A w \in records : v.id <= w.id
         IN  <<first>> \o KeyOrder(records \ {first})

\* the comparator of getAllVideos, ascending where it should be descending
CompareOldestFirst(a, b) ==
    IF DateParse(a.createdAt) = NaN \/ DateParse(b.createdAt) = NaN THEN 0
    ELSE DateParse(a.createdAt) - DateParse(b.createdAt)

\* (a, b) => new Date(b.createdAt) - new Date(a.createdAt)
Compare(a, b) ==
    IF DateParse(a.createdAt) = NaN \/ DateParse(b.createdAt) = NaN THEN 0
    ELSE DateParse(b.createdAt) - DateParse(a.createdAt)

\* Array.prototype.sort, which is stable: x goes before the first element
\* that the comparator puts after it
RECURSIVE Insert(_, _)
Insert(sorted, x) ==
    IF sorted = <<>> THEN <<x>>
    ELSE IF Compare(Head(sorted), x) > 0 THEN <<x>> \o sorted
    ELSE <<Head(sorted)>> \o Insert(Tail(sorted), x)

RECURSIVE Sort(_)
Sort(array) ==
    IF array = <<>> THEN <<>>
    ELSE Insert(Sort(SubSeq(array, 1, Len(array) - 1)), array[Len(array)])

getAllVideos ==
    /\ Len(apiLog) < MaxCalls
    /\ Logged("getAllVideos", UNDEFINED, NULL, Sort(KeyOrder(videos)))
    /\ UNCHANGED <<Pipeline, store>>

\* index.get(videoId): request.result is the record, or undefined
getVideo(id) ==
    /\ Len(apiLog) < MaxCalls
    /\ Logged("getVideo", id, NULL,
              IF IndexGet(id) = {} THEN <<>> ELSE <<CHOOSE v \in IndexGet(id) : TRUE>>)
    /\ UNCHANGED <<Pipeline, store>>

\* a delete over the key range that ends at id
DeleteUpTo(id) == {v \in videos : ~(id.type = "number" /\ v.id <= id.value)}

\* objectStore.delete(id): removes the record whose key is id, if there is one
Delete(id) == {v \in videos : ~(id.type = "number" /\ v.id = id.value)}

deleteVideo(id) ==
    /\ Len(apiLog) < MaxCalls
    /\ videos' = Delete(id)
    /\ Logged("deleteVideo", id, NULL, UNDEFINED)
    /\ UNCHANGED <<Pipeline, nextKey, now>>

clearAll ==
    /\ Len(apiLog) < MaxCalls
    /\ videos' = {}
    /\ Logged("clearAll", UNDEFINED, NULL, UNDEFINED)
    /\ UNCHANGED <<Pipeline, nextKey, now>>

\* ----------------------------------------------------------- generateVideo

Call(endpoint) == [calls EXCEPT ![endpoint] = @ + 1]

Reply(result) == [to |-> pc, result |-> result, error |-> NULL]

\* the call the run awaits rejects with this error
Rejected(error) == [to |-> pc, result |-> "error", error |-> error]

\* validate without its last check
validateSkipsVoice ==
    IF audioBlob = NULL
    THEN [valid |-> FALSE, message |-> "Please record your voice first"]
    ELSE IF selectedAvatar = NoAvatar /\ selectedCharacter = NoCharacter
    THEN [valid |-> FALSE, message |-> "Please select an avatar or character"]
    ELSE [valid |-> TRUE, message |-> UNDEFINED]

validate ==
    IF audioBlob = NULL
    THEN [valid |-> FALSE, message |-> "Please record your voice first"]
    ELSE IF selectedAvatar = NoAvatar /\ selectedCharacter = NoCharacter
    THEN [valid |-> FALSE, message |-> "Please select an avatar or character"]
    ELSE IF getSelectedVoice = NoVoiceSelection
    THEN [valid |-> FALSE, message |-> "Please select a voice option"]
    ELSE [valid |-> TRUE, message |-> UNDEFINED]

\* generateVideo: the catch block. The run ends with loadingModal.showError.
Catch(message) ==
    /\ modal' = [text |-> "Error", elapsed |-> 0]
    /\ outcome' = [kind |-> "error", message |-> message, stage |-> pc]
    /\ pc' = "settled"
    /\ UNCHANGED <<alertMsg, shownVideo>>

\* Lines 25-63, to the first await: validation, then the voice-mode branch.
generateVideo ==
    /\ pc = "idle"
    /\ runs < MaxRuns
    /\ runs' = runs + 1
    /\ UNCHANGED <<apiLog, helpers, transcription, ui, store, provider, storeOps, polled, reply, shownVideo, outcome>>
    /\ UNCHANGED <<transcript, voiceConfig, persona, videoId, attempts, status, transcriptResp>>
    /\ IF ~validate.valid
       THEN /\ alertMsg' = validate.message
            /\ UNCHANGED <<pc, voiceSelection, calls, modal>>
       ELSE /\ voiceSelection' = getSelectedVoice
            /\ alertMsg' = NULL
            /\ IF getSelectedVoice.type = "preset"
               THEN /\ modal' = [text |-> "Transcribing your voice...", elapsed |-> 0]
                    /\ calls' = Call("uploadAudio")
                    /\ pc' = "uploadAudio"
               ELSE /\ modal' = [text |-> "Converting audio...", elapsed |-> 0]
                    /\ calls' = calls
                    /\ pc' = "convertWebMToMP3"

\* a voice that is always sent as text
RequestVoiceAlwaysText(config) ==
    [ type |-> "text", voice_id |-> config.voice.voice_id,
      input_text |-> Or(config.text, ""), audio_asset_id |-> UNDEFINED ]

\* HeyGenService.createVideo: the voice of videoInput
RequestVoice(config) ==
    IF config.voice.type = "text"
    THEN [ type |-> "text", voice_id |-> config.voice.voice_id,
           input_text |-> Or(config.text, ""), audio_asset_id |-> UNDEFINED ]
    ELSE IF config.voice.type = "audio"
    THEN [ type |-> "audio", voice_id |-> UNDEFINED, input_text |-> UNDEFINED,
           audio_asset_id |-> config.voice.audio_asset_id ]
    ELSE NoRequestVoice

\* generateVideo step 2: the character configuration and the avatar name
CharacterConfig(avatar, character) ==
    IF character # NoCharacter
    THEN [ type |-> "photo", photo_id |-> character.heygenId,
           avatar_id |-> UNDEFINED, avatar_style |-> UNDEFINED ]
    ELSE IF avatar # NoAvatar
    THEN [ type |-> "avatar", photo_id |-> UNDEFINED, avatar_id |-> avatar.avatar_id,
           avatar_style |-> Or(avatar.avatar_style, "normal") ]
    ELSE NoCharacterConfig

AvatarName(avatar, character) ==
    IF character # NoCharacter THEN Or(character.name, "Custom Character")
    ELSE IF avatar # NoAvatar THEN Or(avatar.avatar_name, avatar.avatar_id)
    ELSE ""

\* Lines 77-112 and createVideo to its fetch: the persona branch, then the
\* render submission is sent.
SubmitRender(text, voice) ==
    /\ transcript' = text
    /\ voiceConfig' = voice
    /\ persona' = [ avatar |-> selectedAvatar, character |-> selectedCharacter,
                    characterConfig |-> CharacterConfig(selectedAvatar, selectedCharacter),
                    avatarName |-> AvatarName(selectedAvatar, selectedCharacter) ]
    /\ modal' = [text |-> "Generating your video...", elapsed |-> 0]
    /\ request' = [ character |-> CharacterConfig(selectedAvatar, selectedCharacter),
                    voice |-> RequestVoice([voice |-> voice, text |-> text]) ]
    /\ calls' = Call("createVideo")
    /\ pc' = "createVideo"
    /\ UNCHANGED <<alertMsg, outcome, shownVideo, remote, nextVideo>>

\* ----------------------------------------------- AssemblyAIService.getTranscript

\* URLs the upload endpoint answers with (data.upload_url)
UploadUrls == {"upload1", "upload2"}

\* ids the transcript endpoint answers with (data.id)
TranscriptIds == {"t1", "t2"}

\* a failed poll of the transcript that is waited out and repeated
TranscriptionFailedRetriesPoll(message) ==
    IF pc = "pollTranscription" /\ calls.pollTranscription <= MaxTranscriptPolls
    THEN /\ pc' = "transcriptSleep"
         /\ UNCHANGED <<shown, transcription>>
         /\ UNCHANGED <<calls, provider, transcript, voiceConfig, persona>>
    ELSE /\ Catch(message)
         /\ transcription' = NoTranscription
         /\ UNCHANGED <<calls, provider, transcript, voiceConfig, persona>>

\* a failed transcription that falls back to the recorded audio
TranscriptionFailedFallsBack(message) ==
    /\ modal' = [text |-> "Converting audio...", elapsed |-> 0]
    /\ pc' = "convertWebMToMP3"
    /\ transcription' = NoTranscription
    /\ UNCHANGED <<alertMsg, outcome, shownVideo>>
    /\ UNCHANGED <<calls, provider, transcript, voiceConfig, persona>>

\* getTranscript rejects (its catch rethrows): generateVideo has no handler of
\* its own around the call, so the run ends in its catch block
TranscriptionFailed(message) ==
    /\ Catch(message)
    /\ transcription' = NoTranscription
    /\ UNCHANGED <<calls, provider, transcript, voiceConfig, persona>>

\* uploadAudio settles: its URL goes to submitTranscription, an error ends the run.
uploadAudioReturn ==
    /\ pc = "uploadAudio"
    /\ UNCHANGED <<apiLog, helpers, ui, store, storeOps, polled, runs>>
    /\ UNCHANGED <<voiceSelection, videoId, attempts, status, transcriptResp>>
    /\ \/ /\ reply' = Reply("ok")
          /\ \E audioUrl \in UploadUrls :
                transcription' = [transcription EXCEPT !.audioUrl = audioUrl,
                                                       !.audio_url = audioUrl]
          /\ calls' = Call("submitTranscription")
          /\ pc' = "submitTranscription"
          /\ UNCHANGED <<shown, provider, transcript, voiceConfig, persona>>
       \/ /\ reply' = Reply("error")
          /\ \E message \in {FetchFailed, "Upload failed: "} : TranscriptionFailed(message)

\* submitTranscription settles: its id is polled, an error ends the run.
submitTranscriptionReturn ==
    /\ pc = "submitTranscription"
    /\ UNCHANGED <<apiLog, helpers, ui, store, storeOps, polled, runs>>
    /\ UNCHANGED <<voiceSelection, videoId, attempts, status, transcriptResp>>
    /\ \/ /\ reply' = Reply("ok")
          /\ \E transcriptId \in TranscriptIds :
                transcription' = [transcription EXCEPT !.transcriptId = transcriptId,
                                                       !.polledId = transcriptId]
          /\ calls' = Call("pollTranscription")
          /\ pc' = "pollTranscription"
          /\ UNCHANGED <<shown, provider, transcript, voiceConfig, persona>>
       \/ /\ reply' = Reply("error")
          /\ \E message \in {FetchFailed, "Transcription submission failed: "} :
                TranscriptionFailed(message)

\* what a transcription poll can answer
TranscriptResponses ==
    { [status |-> s, text |-> NULL, error |-> NULL] : s \in {"queued", "processing"} }
    \cup { [status |-> "completed", text |-> t, error |-> NULL] : t \in Texts }
    \cup { [status |-> "error", text |-> NULL, error |-> "bad audio"] }

\* pollTranscription settles (lines 88-99): sleep and poll again, fail, or
\* return the text to generateVideo, which goes on to the render submission.
pollTranscriptionReturn ==
    /\ pc = "pollTranscription"
    /\ UNCHANGED <<apiLog, helpers, ui, store, storeOps, polled, runs>>
    /\ UNCHANGED <<voiceSelection, videoId, attempts, status>>
    /\ \/ /\ reply' = Reply("error")
          /\ \E message \in {FetchFailed, "Polling failed: "} : TranscriptionFailed(message)
          /\ UNCHANGED transcriptResp
       \/ \E response \in TranscriptResponses :
            /\ transcriptResp' = response
            /\ reply' = Reply(response.status)
            /\ IF response.status = "error"
               THEN TranscriptionFailed("Transcription failed: " \o response.error)
               ELSE IF response.status = "completed"
               THEN /\ SubmitRender(response.text,
                                    [ type |-> "text",
                                      voice_id |-> voiceSelection.voice.voice_id,
                                      audio_asset_id |-> NULL ])
                    /\ transcription' = NoTranscription
               ELSE /\ calls.pollTranscription <= MaxTranscriptPolls
                    /\ pc' = "transcriptSleep"
                    /\ UNCHANGED <<calls, provider, transcript, voiceConfig, persona, shown,
                                   transcription>>

\* a poll loop that asks for the upload URL instead of the transcript id
transcriptSleepDonePollsUrl ==
    /\ pc = "transcriptSleep"
    /\ calls' = Call("pollTranscription")
    /\ transcription' = [transcription EXCEPT !.polledId = transcription.audioUrl]
    /\ pc' = "pollTranscription"
    /\ UNCHANGED <<apiLog, helpers, ui, store, provider, storeOps, polled, reply, runs, locals, shown>>

\* the 3 second timer of getTranscript fires: the next poll is sent
transcriptSleepDone ==
    /\ pc = "transcriptSleep"
    /\ calls' = Call("pollTranscription")
    /\ transcription' = [transcription EXCEPT !.polledId = transcription.transcriptId]
    /\ pc' = "pollTranscription"
    /\ UNCHANGED <<apiLog, helpers, ui, store, provider, storeOps, polled, reply, runs, locals, shown>>

\* ------------------------------------------------- the custom-voice branch

\* convertWebMToMP3 settles (lines 60-74)
convertReturn ==
    /\ pc = "convertWebMToMP3"
    /\ UNCHANGED <<apiLog, helpers, transcription, ui, store, provider, storeOps, polled, runs, locals>>
    /\ \/ /\ reply' = Reply("ok")
          /\ modal' = [text |-> "Uploading assets...", elapsed |-> 0]
          /\ calls' = Call("uploadAsset")
          /\ pc' = "uploadAsset"
          /\ UNCHANGED <<alertMsg, outcome, shownVideo>>
       \/ /\ reply' = Rejected("Failed to convert audio format")
          /\ Catch("Failed to convert audio format")
          /\ calls' = calls

\* uploadError.message.includes('fetch') || uploadError.message.includes('CORS')
IncludesFetchOrCORS(message) ==
    message \in {"Failed to fetch", "NetworkError when attempting to fetch resource."}

\* the inner catch of the custom-voice branch (lines 68-74)
UploadError(message) ==
    IF IncludesFetchOrCORS(message)
    THEN "CORS Error: Cannot upload audio from localhost."
    ELSE message

\* ids the asset endpoint returns
AssetIds == {"asset1"}

\* uploadAsset settles (lines 63-75)
uploadAssetReturn ==
    /\ pc = "uploadAsset"
    /\ UNCHANGED <<apiLog, helpers, transcription, ui, store, storeOps, polled, runs>>
    /\ UNCHANGED <<voiceSelection, videoId, attempts, status, transcriptResp>>
    /\ \/ /\ reply' = Reply("ok")
          /\ \E uploadedAudio \in AssetIds :
               SubmitRender(transcript,
                            [ type |-> "audio", voice_id |-> NULL,
                              audio_asset_id |-> uploadedAudio ])
       \/ /\ \E message \in TransportErrors \cup {"Failed to upload asset: "} :
                /\ reply' = Rejected(message)
                /\ Catch(UploadError(message))
          /\ UNCHANGED <<calls, provider, transcript, voiceConfig, persona>>

\* ------------------------------------------------ submission and history

\* a refused render submission that is recorded in the history all the same
createVideoReturnRecordsRefused ==
    /\ pc = "createVideo"
    /\ UNCHANGED <<apiLog, helpers, transcription, ui, store, request, calls, polled, runs>>
    /\ UNCHANGED <<voiceSelection, transcript, voiceConfig, persona, attempts, status,
                   transcriptResp>>
    /\ \E result \in {"ok", "error"} : reply' = Reply(result)
    /\ videoId' = ToString(nextVideo)
    /\ remote' = "processing"
    /\ nextVideo' = nextVideo + 1
    /\ storeOps' = [storeOps EXCEPT !.addVideo = @ + 1]
    /\ pc' = "addVideo"
    /\ UNCHANGED shown

\* a render submission that is sent once more after it failed
createVideoReturnRetries ==
    /\ pc = "createVideo"
    /\ UNCHANGED <<apiLog, helpers, transcription, ui, store, request, polled, runs>>
    /\ UNCHANGED <<voiceSelection, transcript, voiceConfig, persona, attempts, status,
                   transcriptResp>>
    /\ \/ /\ reply' = Reply("ok")
          /\ \E id \in {ToString(nextVideo), UNDEFINED} :
                /\ videoId' = id
                /\ remote' = IF id = UNDEFINED THEN NULL ELSE "processing"
          /\ nextVideo' = nextVideo + 1
          /\ storeOps' = [storeOps EXCEPT !.addVideo = @ + 1]
          /\ pc' = "addVideo"
          /\ UNCHANGED <<shown, calls>>
       \/ /\ reply' = Reply("error")
          /\ IF calls.createVideo < 2
             THEN /\ calls' = Call("createVideo")
                  /\ UNCHANGED <<pc, shown>>
             ELSE /\ Catch("Failed to create video: ")
                  /\ UNCHANGED calls
          /\ UNCHANGED <<videoId, remote, nextVideo, storeOps>>

\* createVideo settles (lines 108-128): data.data?.video_id is the job id, and
\* addVideo is called with it at once. A success response may carry no id.
createVideoReturn ==
    /\ pc = "createVideo"
    /\ UNCHANGED <<apiLog, helpers, transcription, ui, store, request, calls, polled, runs>>
    /\ UNCHANGED <<voiceSelection, transcript, voiceConfig, persona, attempts, status,
                   transcriptResp>>
    /\ \/ /\ reply' = Reply("ok")
          /\ \E id \in {ToString(nextVideo), UNDEFINED} :
                /\ videoId' = id
                /\ remote' = IF id = UNDEFINED THEN NULL ELSE "processing"
          /\ nextVideo' = nextVideo + 1
          /\ storeOps' = [storeOps EXCEPT !.addVideo = @ + 1]
          /\ pc' = "addVideo"
          /\ UNCHANGED shown
       \/ /\ reply' = Reply("error")
          /\ \E message \in {FetchFailed, "Failed to create video: "} : Catch(message)
          /\ UNCHANGED <<videoId, remote, nextVideo, storeOps>>

\* generateVideo lines 120-128: the videoData given to addVideo
VideoData ==
    [ videoId |-> videoId,
      status |-> "processing",
      avatarId |-> Or(persona.avatar.avatar_id, persona.character.heygenId),
      avatarName |-> persona.avatarName,
      voiceType |-> voiceSelection.type,
      voiceName |-> IF voiceSelection.type = "preset"
                    THEN voiceSelection.voice.voice_name ELSE "Custom Voice",
      transcript |-> transcript,
      videoUrl |-> UNDEFINED,
      duration |-> UNDEFINED,
      thumbnailUrl |-> UNDEFINED ]

\* a rejected addVideo that is swallowed: the poll loop starts all the same
AddVideoRejectedSwallowed(message) ==
    /\ attempts' = 0
    /\ calls' = Call("getVideoStatus")
    /\ pc' = "getVideoStatus"
    /\ UNCHANGED shown

\* addVideo rejects inside generateVideo's try block: the run ends in the
\* catch block, before waitForVideoWithHistory is called
AddVideoRejected(message) ==
    /\ Catch(message)
    /\ UNCHANGED <<attempts, calls>>

\* the add request is carried out by the store: the record is written and the
\* success event is due, or the request fails and addVideo rejects
addVideoRequest ==
    /\ pc = "addVideo"
    /\ UNCHANGED <<apiLog, helpers, transcription, ui, provider, polled, runs>>
    /\ UNCHANGED <<voiceSelection, transcript, voiceConfig, persona, videoId, status,
                   transcriptResp>>
    /\ \E createdAt \in {now, now + 1} :
         LET video == NewVideo(VideoData, createdAt) IN
         \/ /\ ~IndexConflict(video)
            /\ reply' = Reply("ok")
            /\ videos' = videos \cup {Stored(video, nextKey)}
            /\ nextKey' = nextKey + 1
            /\ now' = createdAt
            /\ storeOps' = [storeOps EXCEPT !.added = @ + 1]
            /\ pc' = "addVideoResolved"
            /\ UNCHANGED <<shown, attempts, calls>>
         \/ /\ createdAt = now
            /\ reply' = Reply("error")
            /\ AddVideoRejected(IF IndexConflict(video) THEN "ConstraintError"
                                ELSE StoreRequestError)
            /\ UNCHANGED <<store, storeOps>>

\* addVideo has resolved (lines 130-134, 181-189): waitForVideoWithHistory
\* starts and sends its first status poll
addVideoResolved ==
    /\ pc = "addVideoResolved"
    /\ attempts' = 0
    /\ calls' = Call("getVideoStatus")
    /\ pc' = "getVideoStatus"
    /\ UNCHANGED <<apiLog, helpers, transcription, ui, store, provider, storeOps, polled, reply, runs, shown>>
    /\ UNCHANGED <<voiceSelection, transcript, voiceConfig, persona, videoId, status,
                   transcriptResp>>

\* ------------------------------------------------- waitForVideoWithHistory

\* a catch block that rethrows every error
LoopCatchRethrowsAll(message) == Catch(message)

\* a catch block that gives up after two transport errors
LoopCatchCapped(message) ==
    IF message = "Video generation failed" \/ polled.error >= 2
    THEN Catch(message)
    ELSE /\ pc' = "retrySleep"
         /\ UNCHANGED shown

\* the catch block of the poll loop (lines 222-231): only the render failure
\* is rethrown, every other error waits for the interval and polls again
LoopCatch(message) ==
    IF message = "Video generation failed"
    THEN Catch(message)
    ELSE /\ pc' = "retrySleep"
         /\ UNCHANGED shown

\* the status the provider reports next: a terminal status is final
RemoteNext == IF remote = "processing" THEN {"processing", "completed", "failed"} ELSE {remote}

\* responses of the status endpoint for a job in state s
StatusResponses(s) ==
    IF s = "completed" THEN CompletedResponses
    ELSE IF s = "failed" THEN {FailedResponse}
    ELSE {ProcessingResponse}

\* a render failure thrown before the history is updated
ObserveTerminalThrowsFirst(response) ==
    IF response.status = "failed"
    THEN /\ Catch("Video generation failed")
         /\ UNCHANGED storeOps
    ELSE /\ storeOps' = [storeOps EXCEPT !.updateVideo = @ + 1]
         /\ pc' = "updateVideo"
         /\ UNCHANGED shown

\* lines 193-213: a terminal status is recorded in the history first
ObserveTerminal(response) ==
    /\ storeOps' = [storeOps EXCEPT !.updateVideo = @ + 1]
    /\ pc' = "updateVideo"
    /\ UNCHANGED shown

\* a progress report that counts only the polls that were answered
ObserveProgressCountsAnswered(response) ==
    /\ modal' = [text |-> "Generating video...", elapsed |-> polled.processing * 3]
    /\ pc' = "pollSleep"
    /\ UNCHANGED <<storeOps, alertMsg, outcome, shownVideo>>

\* a loop that gives up at the first non-terminal status
ObserveProgressGivesUp(response) ==
    /\ Catch("Video generation timeout")
    /\ UNCHANGED storeOps

\* lines 215-219: a non-terminal status is shown as progress, then the loop sleeps
ObserveProgress(response) ==
    /\ modal' = [text |-> "Generating video...", elapsed |-> attempts * 3]
    /\ pc' = "pollSleep"
    /\ UNCHANGED <<storeOps, alertMsg, outcome, shownVideo>>

\* getVideoStatus settles (lines 189-216, 222-228)
getVideoStatusReturn ==
    /\ pc = "getVideoStatus"
    /\ UNCHANGED <<apiLog, helpers, transcription, ui, store, nextVideo, request, calls, runs>>
    /\ UNCHANGED <<voiceSelection, transcript, voiceConfig, persona, videoId, attempts,
                   transcriptResp>>
    /\ \/ /\ attempts < MaxAttempts
          /\ reply' = Reply("error")
          /\ \E message \in {FetchFailed, "Failed to get video status: "} : LoopCatch(message)
          /\ polled' = [polled EXCEPT !.error = @ + 1]
          /\ status' = NoResponse
          /\ UNCHANGED <<remote, storeOps>>
       \/ /\ videoId # UNDEFINED
          /\ \E s \in RemoteNext : \E response \in StatusResponses(s) :
               /\ remote' = s
               /\ status' = response
               /\ reply' = Reply(s)
               /\ polled' = [polled EXCEPT ![s] = @ + 1]
               /\ IF response.status \in {"completed", "failed"}
                  THEN ObserveTerminal(response)
                  ELSE /\ attempts < MaxAttempts
                       /\ ObserveProgress(response)

\* the messages updateVideo can reject with
UpdateErrors(id) ==
    IF id = UNDEFINED THEN {"DataError"}
    ELSE IF IndexGet(id) = {} THEN {"Video not found"}
    ELSE {StoreRequestError}

\* the update request is carried out by the store (updateVideo, lines 93-129):
\* the record is rewritten and the success event is due, or the request fails,
\* updateVideo rejects and the loop's catch block takes over
updateVideoRequest ==
    /\ pc = "updateVideo"
    /\ UNCHANGED <<apiLog, helpers, transcription, ui, nextKey, now, provider, calls, polled, runs, locals>>
    /\ \/ /\ IndexGet(videoId) # {}
          /\ reply' = Reply("ok")
          /\ LET video == CHOOSE v \in IndexGet(videoId) : TRUE IN
               videos' = Put(Assign(video, UpdatesFor(status)))
          /\ storeOps' = [storeOps EXCEPT !.updated = @ + 1]
          /\ pc' = "updateVideoResolved"
          /\ UNCHANGED shown
       \/ /\ attempts < MaxAttempts
          /\ reply' = Reply("error")
          /\ \E message \in UpdateErrors(videoId) : LoopCatch(message)
          /\ UNCHANGED <<videos, storeOps>>

\* updateVideo has resolved (lines 202-203, 212, 134-140): the URL is returned
\* and the video shown, or the render failure is thrown
updateVideoResolved ==
    /\ pc = "updateVideoResolved"
    /\ UNCHANGED <<apiLog, helpers, transcription, ui, store, provider, ghost, runs, locals>>
    /\ IF status.status = "completed"
       THEN /\ shownVideo' = status.video_url
            /\ modal' = [text |-> "Complete!", elapsed |-> 0]
            /\ outcome' = [kind |-> "complete", message |-> NULL, stage |-> pc]
            /\ pc' = "settled"
            /\ UNCHANGED alertMsg
       ELSE LoopCatch("Video generation failed")

\* the 3 second timer of the poll loop fires (lines 219-220, 229-230): the
\* attempt is counted and the next status poll is sent
pollIntervalElapsed ==
    /\ pc \in {"pollSleep", "retrySleep"}
    /\ attempts' = attempts + 1
    /\ calls' = Call("getVideoStatus")
    /\ pc' = "getVideoStatus"
    /\ UNCHANGED <<apiLog, helpers, transcription, ui, store, provider, storeOps, polled, reply, runs, shown>>
    /\ UNCHANGED <<voiceSelection, transcript, voiceConfig, persona, videoId, status,
                   transcriptResp>>

\* LoadingModal.showComplete / showError: the timer that hides the modal fires,
\* and the page is back to the wizard
hideModal ==
    /\ pc = "settled"
    /\ pc' = "idle"
    /\ modal' = HiddenModal
    /\ voiceSelection' = NoVoiceSelection
    /\ transcript' = NULL
    /\ voiceConfig' = NoVoiceConfig
    /\ persona' = NoPersona
    /\ videoId' = NULL
    /\ attempts' = 0
    /\ status' = NoResponse
    /\ transcriptResp' = NoTranscriptResponse
    /\ calls' = NoCalls
    /\ storeOps' = NoStoreOps
    /\ polled' = NoPolled
    /\ reply' = NoReply
    /\ outcome' = NoOutcome
    /\ UNCHANGED <<apiLog, helpers, transcription, ui, store, provider, alertMsg, shownVideo, runs>>

\* ------------------------------------------------------- the specification

Next ==
    \/ RecordingComplete
    \/ RecorderReset
    \/ \E avatar \in Avatars : selectAvatar(avatar)
    \/ \E character \in Characters : selectCharacter(character)
    \/ \E character \in Characters : deleteCharacter(character.id)
    \/ \E voice \in Voices : selectVoice(voice)
    \/ \E useCustom \in BOOLEAN : toggleCustomVoice(useCustom)
    \/ generateVideo
    \/ uploadAudioReturn
    \/ submitTranscriptionReturn
    \/ pollTranscriptionReturn
    \/ transcriptSleepDone
    \/ convertReturn
    \/ uploadAssetReturn
    \/ createVideoReturn
    \/ addVideoRequest
    \/ addVideoResolved
    \/ getVideoStatusReturn
    \/ updateVideoRequest
    \/ updateVideoResolved
    \/ pollIntervalElapsed
    \/ hideModal

Spec == Init /\ [][Next]_vars

\* a status poll that is answered with a terminal status
PollAnswered == getVideoStatusReturn /\ reply'.result \in {"completed", "failed"}

\* an update request the store carries out
UpdateAccepted == updateVideoRequest /\ reply'.result = "ok"

\* The poll loop under a fair environment: the interval timer fires and a
\* resolved promise is continued (the event loop runs every due callback);
\* the status endpoint, however often it fails, answers again and again until
\* it reports a terminal status, and the store, however often it rejects,
\* carries the update out in the end.
\* the wizard completed: a recording, a persona and a voice mode are chosen
Ready ==
    /\ audioBlob = Blob
    /\ selectedAvatar \in Avatars \cup {NoAvatar}
    /\ selectedCharacter \in Characters \cup {NoCharacter}
    /\ selectedVoice \in Voices \cup {NoVoice}
    /\ useCustomVoice \in BOOLEAN
    /\ validate.valid
    /\ pc = "idle"
    /\ LocalsInit
    /\ videos = {}
    /\ nextKey = 1
    /\ now = 0
    /\ remote = NULL
    /\ nextVideo = 1
    /\ request = NoRequest
    /\ calls = NoCalls
    /\ storeOps = NoStoreOps
    /\ polled = NoPolled
    /\ reply = NoReply
    /\ modal = HiddenModal
    /\ alertMsg = NULL
    /\ outcome = NoOutcome
    /\ shownVideo = NULL
    /\ runs = 0
    /\ transcription = NoTranscription
    /\ wait = NoWait
    /\ asset = NoAsset
    /\ characterDb = {}
    /\ nextCharacterId = 1
    /\ characters = <<>>
    /\ charCalls = <<>>
    /\ recorder = NoRecorder
    /\ apiLog = <<>>

\* one run of generateVideo with everything it awaits, to the point where it
\* has ended
Generate ==
    \/ generateVideo
    \/ uploadAudioReturn
    \/ submitTranscriptionReturn
    \/ pollTranscriptionReturn
    \/ transcriptSleepDone
    \/ convertReturn
    \/ uploadAssetReturn
    \/ createVideoReturn
    \/ addVideoRequest
    \/ addVideoResolved
    \/ getVideoStatusReturn
    \/ updateVideoRequest
    \/ updateVideoResolved
    \/ pollIntervalElapsed

FairSpec ==
    /\ Ready
    /\ [][Generate]_vars
    /\ WF_vars(pollIntervalElapsed)
    /\ WF_vars(updateVideoResolved)
    /\ SF_vars(PollAnswered)
    /\ SF_vars(UpdateAccepted)

\* the wizard on its own: the selections, and generateVideo to its first await
SelectNext ==
    \/ RecordingComplete
    \/ RecorderReset
    \/ \E avatar \in Avatars : selectAvatar(avatar)
    \/ \E character \in Characters : selectCharacter(character)
    \/ \E character \in Characters : deleteCharacter(character.id)
    \/ \E voice \in PresetVoices : selectVoice(voice)
    \/ \E useCustom \in BOOLEAN : toggleCustomVoice(useCustom)
    \/ generateVideo

SelectSpec == Init /\ [][SelectNext]_vars

\* ------------------------------------------------- HeyGenService.waitForVideo
\* The bounded poll helper. Nothing in the page calls it: it is driven here
\* as any caller would drive it.

\* CONFIG.VIDEO.MAX_POLL_ATTEMPTS
MAX_POLL_ATTEMPTS == 200

Elsewhere == <<Page, store, apiLog, aside>>

\* lines 480-484: the call, to its first await
waitForVideo(id) ==
    /\ wait.pc = "idle"
    /\ wait' = [NoWait EXCEPT !.pc = "getVideoStatus", !.videoId = id, !.polls = 1,
                              !.remote = "processing"]
    /\ UNCHANGED <<Elsewhere, asset>>

\* getVideoStatus settles (lines 484-494, 457-478): a rejection leaves
\* waitForVideo as it is, a terminal status ends the loop, any other status
\* starts the interval timer
waitForVideoStatusReturn ==
    /\ wait.pc = "getVideoStatus"
    /\ UNCHANGED <<Elsewhere, asset>>
    /\ \/ \E message \in TransportErrors \cup {"Failed to get video status: "} :
            wait' = [wait EXCEPT !.pc = "thrown", !.thrown = message]
       \/ \E s \in IF wait.remote = "processing"
                   THEN {"processing", "completed", "failed"} ELSE {wait.remote} :
          \E response \in StatusResponses(s) :
            IF response.status = "completed"
            THEN wait' = [wait EXCEPT !.pc = "returned", !.remote = s,
                                      !.returned = response.video_url]
            ELSE IF response.status = "failed"
            THEN wait' = [wait EXCEPT !.pc = "thrown", !.remote = s,
                                      !.thrown = "Video generation failed"]
            ELSE wait' = [wait EXCEPT !.pc = "sleep", !.remote = s, !.progress = @ + 1]

\* a loop that tests the ceiling with <= : one poll more
waitForVideoSleepDoneOneMore ==
    /\ wait.pc = "sleep"
    /\ UNCHANGED <<Elsewhere, asset>>
    /\ IF wait.attempts + 1 <= MAX_POLL_ATTEMPTS
       THEN wait' = [wait EXCEPT !.pc = "getVideoStatus", !.attempts = @ + 1,
                                 !.polls = @ + 1]
       ELSE wait' = [wait EXCEPT !.pc = "thrown", !.attempts = @ + 1,
                                 !.thrown = "Video generation timeout"]

\* the interval timer fires (lines 494-498, 483): the attempt is counted, and
\* the loop polls again or, at the ceiling, throws the timeout
waitForVideoSleepDone ==
    /\ wait.pc = "sleep"
    /\ UNCHANGED <<Elsewhere, asset>>
    /\ IF wait.attempts + 1 < MAX_POLL_ATTEMPTS
       THEN wait' = [wait EXCEPT !.pc = "getVideoStatus", !.attempts = @ + 1,
                                 !.polls = @ + 1]
       ELSE wait' = [wait EXCEPT !.pc = "thrown", !.attempts = @ + 1,
                                 !.thrown = "Video generation timeout"]

WaitNext ==
    \/ \E id \in JobIds : waitForVideo(id)
    \/ waitForVideoStatusReturn
    \/ waitForVideoSleepDone

\* every fetch settles and every timer fires
WaitSpec == Init /\ [][WaitNext]_vars /\ WF_vars(WaitNext)

\* -------------------------------------------------- HeyGenService.uploadAsset

\* blob.type of the files given to uploadAsset; the empty string is no type
BlobTypes == {"audio/wav", "audio/wave", "audio/x-wav", "audio/mpeg", "audio/mp3",
              "audio/webm", "image/png", "image/jpeg", "image/webp", ""}

\* a File or a Blob of each type
Files == [file : BOOLEAN, type : BlobTypes]

\* lines 334-339: a File is wrapped in a Blob of the same type
BlobOf(file) == IF file.file THEN [file |-> FALSE, type |-> file.type] ELSE file

\* a content type that passes the blob's own type on for unknown audio
ContentTypePassesUnknown(type, blob) ==
    IF type = "audio"
    THEN IF blob.type \in {"audio/wav", "audio/wave", "audio/x-wav"} THEN "audio/x-wav"
         ELSE IF blob.type \in {"audio/mpeg", "audio/mp3"} THEN "audio/mpeg"
         ELSE Or(blob.type, "audio/x-wav")
    ELSE Or(blob.type, "image/jpeg")

\* lines 342-358
ContentType(type, blob) ==
    IF type = "audio"
    THEN IF blob.type \in {"audio/wav", "audio/wave", "audio/x-wav"} THEN "audio/x-wav"
         ELSE IF blob.type \in {"audio/mpeg", "audio/mp3"} THEN "audio/mpeg"
         ELSE "audio/x-wav"
    ELSE Or(blob.type, "image/jpeg")

\* lines 330-378: the call, to its fetch
uploadAsset(file, type) ==
    /\ asset.pc # "fetch"
    /\ asset' = [NoAsset EXCEPT !.pc = "fetch", !.type = type,
                                !.blobType = BlobOf(file).type,
                                !.contentType = ContentType(type, BlobOf(file))]
    /\ UNCHANGED <<Elsewhere, wait>>

\* lines 380-392: the fetch settles
uploadAssetFetchReturn ==
    /\ asset.pc = "fetch"
    /\ UNCHANGED <<Elsewhere, wait>>
    /\ \/ \E data \in AssetIds : asset' = [asset EXCEPT !.pc = "returned", !.returned = data]
       \/ \E message \in TransportErrors \cup {"Failed to upload asset: "} :
            asset' = [asset EXCEPT !.pc = "thrown", !.thrown = message]

AssetNext ==
    \/ \E file \in Files : \E type \in {"audio", "image"} : uploadAsset(file, type)
    \/ uploadAssetFetchReturn

AssetSpec == Init /\ [][AssetNext]_vars

\* ---------------------------------------------------- the custom characters
\* CharacterManager (part_001) over CharacterStorage (utils/storage.js). Each
\* call is followed from one await to the next; an IndexedDB transaction takes
\* effect in the step that creates it, transactions on one store running in
\* the order of their creation.

\* CONFIG.CHARACTER.SUPPORTED_FORMATS
SUPPORTED_FORMATS == {"image/jpeg", "image/png", "image/webp"}

\* CONFIG.CHARACTER.MAX_FILE_SIZE
MAX_FILE_SIZE == 10 * 1024 * 1024

MaxCharCalls == 2

UnsupportedFormat == "Unsupported file format. Please use JPG, PNG, or WebP."

FileTooLarge == "File size exceeds 10MB limit."

NoAssetId == "Failed to get HeyGen asset ID"

CharacterNotFound == "Character not found"

\* the files a user may pick: the largest accepted one, one byte more, and a
\* format that is not on the list
ImageFiles == { [type |-> "image/png", size |-> MAX_FILE_SIZE],
                [type |-> "image/webp", size |-> MAX_FILE_SIZE + 1],
                [type |-> "image/gif", size |-> 1024] }

CharacterNames == {"Nova"}

\* what uploadAsset resolves with (data.data of the upload response): an asset
\* with its id, or one without (a missing asset takes the same branch)
HeygenAssets == { [id |-> "img7"], [id |-> UNDEFINED] }

NoCharacterData == [name |-> NULL, heygenId |-> NULL, isDefault |-> FALSE]

\* records handed to saveCharacter directly
NewCharacters == { [name |-> "Solo", heygenId |-> "img9", isDefault |-> isDefault] :
                     isDefault \in BOOLEAN }

\* what earlier sessions may have left in the store: nothing, or two uploaded
\* characters, the first of which may have been made the default
Kept(isDefault) ==
    { [id |-> 1, name |-> "Ada", heygenId |-> "img1", isDefault |-> isDefault],
      [id |-> 2, name |-> "Bo", heygenId |-> "img2", isDefault |-> FALSE] }

CharacterDbs == { {}, Kept(FALSE), Kept(TRUE) }

\* ids asked of setDefaultCharacter: the key generator never hands out 0
DefaultArgs == {0, 1, 2}

NoCharCall == [op |-> NULL, id |-> 0, data |-> NoCharacterData,
               file |-> [type |-> NULL, size |-> 0], pc |-> NULL, toClear |-> {},
               key |-> 0, error |-> NULL, before |-> {}, listBefore |-> <<>>,
               alone |-> FALSE]

Running(call) == call.pc \notin {"resolved", "rejected"}

Rest == <<Page, store, apiLog, wait, asset>>

\* a call is made: it is noted with the store and the list as it found them,
\* and whether any other call is under way during it
Begin(call) ==
    charCalls' =
        Append([i \in DOMAIN charCalls |->
                   IF Running(charCalls[i]) THEN [charCalls[i] EXCEPT !.alone = FALSE]
                                            ELSE charCalls[i]],
               [call EXCEPT !.before = characterDb,
                            !.listBefore = characters,
                            !.alone = \A i \in DOMAIN charCalls : ~Running(charCalls[i])])

Settle(i, call) == charCalls' = [charCalls EXCEPT ![i] = call]

\* objectStore.add: the key generator supplies the id
Add(characterData) ==
    characterDb \cup { [id |-> nextCharacterId, name |-> characterData.name,
                        heygenId |-> characterData.heygenId,
                        isDefault |-> characterData.isDefault] }

\* objectStore.put of each of the records: whatever is stored under its id is replaced
PutAll(putCharacters) ==
    { c \in characterDb : \A character \in putCharacters : character.id # c.id }
        \cup putCharacters

\* loadCharacters: getAll returns the records in key order
Loaded(db) == [i \in 1..Cardinality(db) |-> CHOOSE c \in db : c.id = i]

\* lines 22-31: the validation, and on to the upload
uploadCharacter(file, name) ==
    /\ Len(charCalls) < MaxCharCalls
    /\ LET call == [NoCharCall EXCEPT !.op = "uploadCharacter", !.file = file,
                                      !.data = [NoCharacterData EXCEPT !.name = name]]
       IN  Begin(IF file.type \notin SUPPORTED_FORMATS
                   THEN [call EXCEPT !.pc = "rejected", !.error = UnsupportedFormat]
                 ELSE IF file.size > MAX_FILE_SIZE
                   THEN [call EXCEPT !.pc = "rejected", !.error = FileTooLarge]
                 ELSE [call EXCEPT !.pc = "uploadAsset"])
    /\ UNCHANGED <<characterDb, nextCharacterId, characters, recorder, Rest>>

\* as if the asset's id were not looked at
uploadCharacterAssetReturnUnchecked(i) ==
    /\ charCalls[i].op = "uploadCharacter"
    /\ charCalls[i].pc = "uploadAsset"
    /\ \E heygenAsset \in HeygenAssets :
         Settle(i, [charCalls[i] EXCEPT !.pc = "arrayBuffer",
                                        !.data.heygenId = heygenAsset.id])
    /\ UNCHANGED <<characterDb, nextCharacterId, characters, recorder, Rest>>

\* lines 41-48: heyGen.uploadAsset settles
uploadCharacterAssetReturn(i) ==
    /\ charCalls[i].op = "uploadCharacter"
    /\ charCalls[i].pc = "uploadAsset"
    /\ \/ \E heygenAsset \in HeygenAssets :
            IF Falsy(heygenAsset.id)
              THEN Settle(i, [charCalls[i] EXCEPT !.pc = "rejected", !.error = NoAssetId])
              ELSE Settle(i, [charCalls[i] EXCEPT !.pc = "arrayBuffer",
                                                  !.data.heygenId = heygenAsset.id])
       \/ \E message \in TransportErrors \cup {"Failed to upload asset: "} :
            Settle(i, [charCalls[i] EXCEPT !.pc = "rejected", !.error = message])
    /\ UNCHANGED <<characterDb, nextCharacterId, characters, recorder, Rest>>

\* lines 50-60: the record is built and handed to storage.saveCharacter, whose
\* add (storage.js 41-55) succeeds or fails
uploadCharacterSave(i) ==
    /\ charCalls[i].op = "uploadCharacter"
    /\ charCalls[i].pc = "arrayBuffer"
    /\ \/ /\ characterDb' = Add(charCalls[i].data)
          /\ nextCharacterId' = nextCharacterId + 1
          /\ Settle(i, [charCalls[i] EXCEPT !.pc = "saved", !.key = nextCharacterId])
       \/ /\ Settle(i, [charCalls[i] EXCEPT !.pc = "rejected", !.error = StoreRequestError])
          /\ UNCHANGED <<characterDb, nextCharacterId>>
    /\ UNCHANGED <<characters, recorder, Rest>>

\* lines 61-71: the saved character joins the list
uploadCharacterDone(i) ==
    /\ charCalls[i].op = "uploadCharacter"
    /\ charCalls[i].pc = "saved"
    /\ characters' = Append(characters,
                            [id |-> charCalls[i].key, name |-> charCalls[i].data.name,
                             heygenId |-> charCalls[i].data.heygenId,
                             isDefault |-> FALSE])
    /\ Settle(i, [charCalls[i] EXCEPT !.pc = "resolved"])
    /\ UNCHANGED <<characterDb, nextCharacterId, recorder, Rest>>

\* storage.js 35-56: a default first clears the others, anything else is added
\* at once
saveCharacter(characterData) ==
    /\ Len(charCalls) < MaxCharCalls
    /\ LET call == [NoCharCall EXCEPT !.op = "saveCharacter", !.data = characterData]
       IN  IF characterData.isDefault
             THEN /\ Begin([call EXCEPT !.pc = "clear",
                                        !.toClear = {c \in characterDb : c.isDefault}])
                  /\ UNCHANGED <<characterDb, nextCharacterId>>
             ELSE \/ /\ characterDb' = Add(characterData)
                     /\ nextCharacterId' = nextCharacterId + 1
                     /\ Begin([call EXCEPT !.pc = "resolved", !.key = nextCharacterId])
                  \/ /\ Begin([call EXCEPT !.pc = "rejected",
                                           !.error = StoreRequestError])
                     /\ UNCHANGED <<characterDb, nextCharacterId>>
    /\ UNCHANGED <<characters, recorder, Rest>>

\* storage.js 84-85 with 112-113: the call, to clearAllDefaults' getCharacters
setDefaultCharacter(id) ==
    /\ Len(charCalls) < MaxCharCalls
    /\ Begin([NoCharCall EXCEPT !.op = "setDefaultCharacter", !.id = id, !.pc = "clear",
                                !.toClear = {c \in characterDb : c.isDefault}])
    /\ UNCHANGED <<characterDb, nextCharacterId, characters, recorder, Rest>>

\* storage.js 114-129: every default that getCharacters returned is put back
\* with isDefault false, each in a transaction of its own
clearAllDefaults(i) ==
    /\ charCalls[i].pc = "clear"
    /\ \E failed \in SUBSET charCalls[i].toClear :
         /\ characterDb' = PutAll({ [c EXCEPT !.isDefault = FALSE] :
                                      c \in charCalls[i].toClear \ failed })
         /\ IF failed # {}
              THEN Settle(i, [charCalls[i] EXCEPT !.pc = "rejected",
                                                  !.error = StoreRequestError])
              ELSE Settle(i, [charCalls[i] EXCEPT
                                !.pc = IF charCalls[i].op = "saveCharacter" THEN "add"
                                                                            ELSE "set"])
    /\ UNCHANGED <<nextCharacterId, characters, recorder, Rest>>

\* storage.js 41-55: the add of a default character
saveCharacterAdd(i) ==
    /\ charCalls[i].pc = "add"
    /\ \/ /\ characterDb' = Add(charCalls[i].data)
          /\ nextCharacterId' = nextCharacterId + 1
          /\ Settle(i, [charCalls[i] EXCEPT !.pc = "resolved", !.key = nextCharacterId])
       \/ /\ Settle(i, [charCalls[i] EXCEPT !.pc = "rejected", !.error = StoreRequestError])
          /\ UNCHANGED <<characterDb, nextCharacterId>>
    /\ UNCHANGED <<characters, recorder, Rest>>

\* storage.js 87-109: one transaction gets the character and puts it back as
\* the default, or finds nothing
setDefaultCharacterPut(i) ==
    /\ charCalls[i].pc = "set"
    /\ IF \E character \in characterDb : character.id = charCalls[i].id
         THEN /\ characterDb' = PutAll({ [character EXCEPT !.isDefault = TRUE] :
                                           character \in { c \in characterDb :
                                                             c.id = charCalls[i].id } })
              /\ Settle(i, [charCalls[i] EXCEPT !.pc = "resolved"])
         ELSE /\ Settle(i, [charCalls[i] EXCEPT !.pc = "rejected",
                                                !.error = CharacterNotFound])
              /\ UNCHANGED characterDb
    /\ UNCHANGED <<nextCharacterId, characters, recorder, Rest>>

CharNext ==
    \/ \E file \in ImageFiles : \E name \in CharacterNames : uploadCharacter(file, name)
    \/ \E characterData \in NewCharacters : saveCharacter(characterData)
    \/ \E id \in DefaultArgs : setDefaultCharacter(id)
    \/ \E i \in DOMAIN charCalls : uploadCharacterAssetReturn(i)
    \/ \E i \in DOMAIN charCalls : uploadCharacterSave(i)
    \/ \E i \in DOMAIN charCalls : uploadCharacterDone(i)
    \/ \E i \in DOMAIN charCalls : clearAllDefaults(i)
    \/ \E i \in DOMAIN charCalls : saveCharacterAdd(i)
    \/ \E i \in DOMAIN charCalls : setDefaultCharacterPut(i)

\* the page loaded over what the store holds (CharacterManager.init)
CharReady ==
    /\ audioBlob = NULL
    /\ selectedAvatar = NoAvatar
    /\ selectedCharacter = NoCharacter
    /\ selectedVoice = NoVoice
    /\ useCustomVoice = FALSE
    /\ pc = "idle"
    /\ LocalsInit
    /\ videos = {}
    /\ nextKey = 1
    /\ now = 0
    /\ remote = NULL
    /\ nextVideo = 1
    /\ request = NoRequest
    /\ calls = NoCalls
    /\ storeOps = NoStoreOps
    /\ polled = NoPolled
    /\ reply = NoReply
    /\ modal = HiddenModal
    /\ alertMsg = NULL
    /\ outcome = NoOutcome
    /\ shownVideo = NULL
    /\ runs = 0
    /\ transcription = NoTranscription
    /\ wait = NoWait
    /\ asset = NoAsset
    /\ characterDb \in CharacterDbs
    /\ nextCharacterId = Cardinality(characterDb) + 1
    /\ characters = Loaded(characterDb)
    /\ charCalls = <<>>
    /\ recorder = NoRecorder
    /\ apiLog = <<>>

CharSpec == CharReady /\ [][CharNext]_vars

\* ------------------------------------------------------- the voice recorder
\* VoiceRecorder.startRecording and stopRecording (part_003) with the timeouts
\* they leave pending. The clock moves in steps of half the maximal duration.

\* CONFIG.RECORDING.MAX_DURATION
MAX_DURATION == 300000

Tick == MAX_DURATION \div 2

MaxTicks == 5

MaxRecordings == 2

BesideRecorder == <<Rest, characterStore>>

\* lines 154-185: a recording begins, and its auto-stop timeout is armed
Record(r) ==
    [r EXCEPT !.isRecording = TRUE,
              !.startTime = r.clock,
              !.recording = r.recording + 1,
              !.timeouts = r.timeouts \cup { [due |-> r.clock + MAX_DURATION,
                                              armedBy |-> r.recording + 1] },
              !.ignored = NULL]

\* lines 191-194: the recording under way is stopped
Stopped(r, by, armedBy) ==
    [r EXCEPT !.isRecording = FALSE,
              !.lastStop = [recording |-> r.recording, by |-> by, armedBy |-> armedBy,
                            ran |-> r.clock - r.startTime],
              !.ignored = NULL]

\* lines 146-152, and 154-185 when the stream is there already
startRecording ==
    /\ recorder.isRecording \/ recorder.recording + recorder.initPending < MaxRecordings
    /\ recorder' = IF recorder.isRecording
                     THEN [recorder EXCEPT !.ignored = "startRecording"]
                   ELSE IF ~recorder.stream
                     THEN [recorder EXCEPT !.initPending = @ + 1, !.ignored = NULL]
                   ELSE Record(recorder)
    /\ UNCHANGED BesideRecorder

\* lines 135-144 and 150-185: getUserMedia settles, and a granted stream is
\* recorded from without another look at isRecording
initReturn ==
    /\ recorder.initPending > 0
    /\ \/ recorder' = Record([recorder EXCEPT !.stream = TRUE, !.initPending = @ - 1])
       \/ recorder' = [recorder EXCEPT !.initPending = @ - 1]
    /\ UNCHANGED BesideRecorder

\* lines 188-195
stopRecording ==
    /\ recorder' = IF ~recorder.isRecording
                     THEN [recorder EXCEPT !.ignored = "stopRecording"]
                     ELSE Stopped(recorder, "stopRecording", 0)
    /\ UNCHANGED BesideRecorder

\* lines 181-185: a timeout that is due runs its callback
timeoutFires(timeout) ==
    /\ timeout \in recorder.timeouts
    /\ timeout.due <= recorder.clock
    /\ LET r == [recorder EXCEPT !.timeouts = @ \ {timeout}]
       IN  recorder' = IF r.isRecording THEN Stopped(r, "timeout", timeout.armedBy)
                                        ELSE r
    /\ UNCHANGED BesideRecorder

\* time passes
tick ==
    /\ recorder.clock < MaxTicks * Tick
    /\ recorder' = [recorder EXCEPT !.clock = @ + Tick]
    /\ UNCHANGED BesideRecorder

RecNext ==
    \/ startRecording
    \/ initReturn
    \/ stopRecording
    \/ \E timeout \in recorder.timeouts : timeoutFires(timeout)
    \/ tick

RecSpec == Init /\ [][RecNext]_vars

\* the history store driven through its interface alone
StoreNext ==
    \/ \E videoData \in VideoDatas : addVideo(videoData)
    \/ \E id \in JobIds : \E updates \in Updates : updateVideo(id, updates)
    \/ getAllVideos
    \/ \E id \in JobIds : getVideo(id)
    \/ \E id \in DeleteArgs \cup JobIdArgs : deleteVideo(id)
    \/ clearAll

StoreSpec == Init /\ [][StoreNext]_vars

\* ------------------------------------------------------------- the claims

\* the records the history holds for the run's job
History == {v \in videos : v.videoId = videoId}


\* status polls answered with a terminal status in the current run
TerminalPolls == polled.completed + polled.failed

\* C1: when createVideo has returned a job id, the step that issues the first
\* getVideoStatus call starts in a state where addVideo has resolved and the
\* store holds a 'processing' record with that id; and while no record has
\* been added no status poll is issued, so a failed store write means no poll.
C1_RecordBeforeFirstPoll ==
    [][ /\ (calls.getVideoStatus = 0 /\ calls'.getVideoStatus > 0) =>
              /\ pc = "addVideoResolved"
              /\ storeOps.added = 1
              /\ \E v \in videos : v.videoId = videoId /\ v.status = "processing"
        /\ (storeOps'.added = 0 => calls'.getVideoStatus = 0)
        /\ (pc = "addVideo" /\ reply'.result = "error") =>
              (pc' = "settled" /\ outcome'.kind = "error" /\ videos' = videos)
      ]_vars

C1_Witness ==
    /\ pc = "getVideoStatus"
    /\ attempts = 0
    /\ videoId # UNDEFINED
    /\ \E v \in videos : v.videoId = videoId /\ v.status = "processing"

\* C2: a run of the poll loop that saw only transport errors, non-terminal
\* statuses and 'completed' ends in success, never in an error; every outcome
\* was followed by the next poll; the URL returned and shown is the one of the
\* last 'completed' response, which is also the one stored; exactly one update
\* succeeded, and with one 'completed' response updateVideo was called once.
C2_PollingResilience ==
    (pc = "settled" /\ calls.getVideoStatus > 0 /\ polled.failed = 0) =>
        /\ outcome.kind = "complete"
        /\ status.status = "completed"
        /\ shownVideo = status.video_url
        /\ calls.getVideoStatus = polled.error + polled.processing + polled.completed
        /\ storeOps.updated = 1
        /\ storeOps.updateVideo = polled.completed
        /\ \A v \in History : v.status = "completed" /\ v.videoUrl = status.video_url

C2_Witness ==
    /\ pc = "settled"
    /\ outcome.kind = "complete"
    /\ polled = [error |-> 2, processing |-> 1, completed |-> 1, failed |-> 0]
    /\ storeOps.updateVideo = 1
    /\ shownVideo = "u2"

C3_FailedIsDurable ==
    /\ (pc = "updateVideoResolved" /\ status.status = "failed") =>
           (History # {} /\ \A v \in History : v.status = "failed")
    /\ (pc = "settled" /\ polled.failed > 0) =>
           /\ outcome.kind = "error"
           /\ outcome.message = "Video generation failed"
           /\ History # {}
           /\ \A v \in History : v.status = "failed"
    /\ (outcome.kind = "error" /\ outcome.message = "Video generation failed") =>
           polled.failed > 0

\* C3: once a poll has returned 'failed', the update to 'failed' has completed
\* before the error is thrown, the run can only end with the render-failed
\* error, the record is 'failed' when the error is shown, and a 'failed'
\* record stays as it is from then on.
C3_FailedBeforeSurfaced ==
    [][ /\ C3_FailedIsDurable'
        /\ \A v \in videos : v.status = "failed" => v \in videos'
      ]_vars

C3_Witness ==
    /\ pc = "settled"
    /\ outcome.message = "Video generation failed"
    /\ polled.failed = 1
    /\ polled.processing = 1
    /\ \E v \in History : v.status = "failed"

\* C4: a transport error of getVideoStatus leaves the loop waiting for the
\* interval, with the store unchanged and the record 'processing'; when the
\* interval has passed the only step is the next getVideoStatus call for the
\* same job id. This holds whatever the number of errors so far.
C4_TransportErrorRetried ==
    [][ /\ (pc = "getVideoStatus" /\ reply'.result = "error") =>
              /\ pc' = "retrySleep"
              /\ videos' = videos
              /\ videoId' = videoId
              /\ History # {}
              /\ \A v \in History : v.status = "processing"
        /\ (pc = "retrySleep") =>
              /\ pc' = "getVideoStatus"
              /\ videoId' = videoId
              /\ videos' = videos
              /\ calls'.getVideoStatus = calls.getVideoStatus + 1
      ]_vars

C4_Witness ==
    /\ pc = "getVideoStatus"
    /\ polled = [error |-> MaxAttempts, processing |-> 0, completed |-> 0, failed |-> 0]
    /\ calls.getVideoStatus = MaxAttempts + 1
    /\ \A v \in History : v.status = "processing"

\* C5: once a status poll of the run has returned 'failed', no further
\* getVideoStatus call is issued in that run.
C5_FailedNeverRetried ==
    [][ polled.failed > 0 => calls'.getVideoStatus <= calls.getVideoStatus ]_vars

\* C6: when updateVideo rejects while a terminal status is being recorded, the
\* loop stops and the run ends with an error: it does not sleep and poll again.
C6_StoreErrorStopsLoop ==
    [][ (pc = "updateVideo" /\ reply'.result = "error") =>
            (pc' = "settled" /\ outcome'.kind = "error")
      ]_vars

\* the first item validate misses, from the selections alone
FirstMissing ==
    IF audioBlob # Blob THEN "Please record your voice first"
    ELSE IF selectedAvatar \notin Avatars /\ selectedCharacter \notin Characters
    THEN "Please select an avatar or character"
    ELSE IF ~useCustomVoice /\ selectedVoice \notin Voices
    THEN "Please select a voice option"
    ELSE NULL

\* C7: a generateVideo call with the audio, the persona or the voice missing
\* ends at once with the alert for the first missing item: no remote call is
\* issued, no store request is made and the store is unchanged.
C7_ValidationFailsFast ==
    [][ (runs' = runs + 1 /\ FirstMissing # NULL) =>
            /\ alertMsg' = FirstMissing
            /\ pc' = "idle"
            /\ calls' = NoCalls
            /\ storeOps' = NoStoreOps
            /\ store' = store
            /\ provider' = provider
      ]_vars

C7_Witness ==
    /\ runs > 0
    /\ pc = "idle"
    /\ alertMsg = "Please select a voice option"
    /\ audioBlob = Blob
    /\ selectedCharacter \in Characters
    /\ calls = NoCalls
    /\ videos = {}

\* the stages of getTranscript
TranscriptionStages == {"uploadAudio", "submitTranscription", "pollTranscription"}

\* C8: in preset-voice mode a failed upload, submit or poll of the
\* transcription, or a poll with status 'error', ends the run with an error:
\* no asset upload, no render submission, no history record and no status
\* poll has been or is made, and nothing follows but the modal being hidden.
C8_NoFallbackToAudio ==
    [][ /\ (pc \in TranscriptionStages /\ reply'.result = "error") =>
              /\ pc' = "settled"
              /\ outcome'.kind = "error"
              /\ calls'.uploadAsset = 0
              /\ calls'.createVideo = 0
              /\ calls'.getVideoStatus = 0
              /\ storeOps'.addVideo = 0
              /\ store' = store
        /\ (pc = "settled") => (pc' = "idle" /\ store' = store /\ calls' = NoCalls)
        /\ (pc \in TranscriptionStages) => voiceSelection.type = "preset"
      ]_vars

C8_Witness ==
    /\ pc = "settled"
    /\ outcome.stage = "pollTranscription"
    /\ outcome.message = "Transcription failed: bad audio"
    /\ transcriptResp.status = "error"
    /\ calls.pollTranscription = 2
    /\ calls.createVideo = 0

\* C9: in a successful preset-voice run the text sent as input_text and the
\* transcript stored in the record both equal the text of the transcription
\* poll response with status 'completed'.
C9_TranscriptIsProviderText ==
    (pc = "settled" /\ outcome.kind = "complete" /\ voiceSelection.type = "preset") =>
        /\ transcriptResp.status = "completed"
        /\ request.voice.input_text = transcriptResp.text
        /\ \A v \in History : v.transcript = transcriptResp.text

C10_OneUpdate ==
    /\ storeOps.updated <= 1
    /\ (TerminalPolls = 0 => storeOps.updated = 0)
    /\ (storeOps.updated = 1 => TerminalPolls = 1)
    /\ (pc = "settled" /\ calls.getVideoStatus > 0) => storeOps.updated = 1

\* C10: the record of a job is updated exactly once, on the first poll that
\* observes a terminal status and not before, and no record is ever removed.
C10_MutatedExactlyOnce ==
    [][ /\ C10_OneUpdate'
        /\ \A v \in videos : \E w \in videos' : w.id = v.id
      ]_vars

\* C11: the run is reported complete, and the video shown, only by a step that
\* starts after updateVideo has resolved with the record 'completed' and holding
\* the URL shown; the render failure is reported only by a step that starts
\* after updateVideo has resolved with the record 'failed'; and a progress
\* notification of the poll loop is emitted only while the job has a
\* 'processing' record.
C11_PersistedBeforeNotified ==
    [][ /\ (outcome.kind = "none" /\ outcome'.kind = "complete") =>
              /\ reply = [to |-> "updateVideo", result |-> "ok", error |-> NULL]
              /\ History # {}
              /\ \A v \in History : v.status = "completed" /\ v.videoUrl = shownVideo'
              /\ modal'.text = "Complete!"
        /\ (outcome.kind = "none" /\ outcome'.message = "Video generation failed") =>
              /\ reply = [to |-> "updateVideo", result |-> "ok", error |-> NULL]
              /\ History # {}
              /\ \A v \in History : v.status = "failed"
        /\ (modal'.text = "Generating video..." /\ modal' # modal) =>
              /\ \E v \in History : v.status = "processing"
              /\ videos' = videos
        /\ (pc = "getVideoStatus" /\ pc' = "pollSleep") => modal'.text = "Generating video..."
      ]_vars

C11_Witness ==
    /\ pc = "settled"
    /\ outcome.kind = "complete"
    /\ polled.processing = 2
    /\ modal.text = "Complete!"
    /\ \E v \in History : v.status = "completed" /\ v.videoUrl = shownVideo

\* ------------------------------------------ the claims about the store

\* the step is a call of op on the store
Calls(op) == Len(apiLog') = Len(apiLog) + 1 /\ Called'.op = op

\* C12: an addVideo call whose videoId is already held by a record fails with
\* the unique index's ConstraintError and leaves the store as it was: the one
\* record of that id is still the one first written.
C12_DuplicateCreateRejected ==
    [][ \A id \in JobIds :
          (Calls("addVideo") /\ Called'.arg.videoId = id /\ IndexGet(id) # {}) =>
              /\ Called'.error = "ConstraintError"
              /\ store' = store
              /\ Cardinality({v \in videos' : v.videoId = id}) = 1
      ]_vars

C12_Witness ==
    /\ Len(apiLog) = 2
    /\ apiLog[1] = [op |-> "addVideo", arg |-> SubmittedJob("j1"), error |-> NULL, result |-> 1]
    /\ apiLog[2].op = "addVideo"
    /\ apiLog[2].arg = FinishedJob("j1")
    /\ apiLog[2].error = "ConstraintError"
    /\ \A v \in videos : v.videoId = "j1" /\ v.status = "processing" /\ v.transcript = "hello"
    /\ Cardinality(videos) = 1

\* C13: whatever the order of the addVideo and updateVideo calls, no two
\* records hold the same videoId; addVideo never overwrites a record; and an
\* updateVideo call for one videoId leaves the records of every other videoId
\* exactly as they were.
C13_DistinctIdsNeverContend ==
    [][ /\ \A v, w \in videos' : v.videoId = w.videoId => v = w
        /\ Calls("addVideo") => videos \subseteq videos'
        /\ Calls("updateVideo") =>
              \A v \in videos : v.videoId # Called'.arg.videoId => v \in videos'
      ]_vars

C13_Witness ==
    /\ Len(apiLog) = 3
    /\ apiLog[1].op = "addVideo" /\ apiLog[1].arg.videoId = "j1"
    /\ apiLog[2].op = "addVideo" /\ apiLog[2].arg.videoId = "j2"
    /\ apiLog[3].op = "updateVideo" /\ apiLog[3].arg.videoId = "j1"
    /\ apiLog[3].error = NULL
    /\ \E v \in videos : v.videoId = "j1" /\ v.status = "failed"
    /\ \E v \in videos : v.videoId = "j2" /\ v.status = "processing"

\* C14: an updateVideo call for a videoId that no record holds rejects with
\* 'Video not found' and leaves the store, every record of it, as it was.
C14_UpdateOfAbsentIdFails ==
    [][ \A id \in JobIds :
          (Calls("updateVideo") /\ Called'.arg.videoId = id /\ IndexGet(id) = {}) =>
              /\ Called'.error = "Video not found"
              /\ store' = store
      ]_vars

C14_Witness ==
    /\ Len(apiLog) = 2
    /\ apiLog[1].op = "addVideo" /\ apiLog[1].arg = SubmittedJob("j1") /\ apiLog[1].error = NULL
    /\ apiLog[2].op = "updateVideo" /\ apiLog[2].arg.videoId = "j2"
    /\ apiLog[2].arg.updates = [status |-> "failed"]
    /\ apiLog[2].error = "Video not found"
    /\ \A v \in videos : v.videoId = "j1" /\ v.status = "processing"
    /\ Cardinality(videos) = 1

\* C15: an updateVideo call that repeats the call made just before it, which
\* succeeded, leaves the store as that first call left it.
C15_UpdateIsIdempotent ==
    [][ ( /\ Len(apiLog) > 0
          /\ Called.op = "updateVideo"
          /\ Called.error = NULL
          /\ Calls("updateVideo")
          /\ Called'.arg = Called.arg ) => store' = store
      ]_vars

C15_Witness ==
    /\ Len(apiLog) = 3
    /\ apiLog[1].op = "addVideo" /\ apiLog[1].arg = SubmittedJob("j1")
    /\ apiLog[2].op = "updateVideo" /\ apiLog[2].error = NULL
    /\ apiLog[2].arg.videoId = "j1" /\ "videoUrl" \in DOMAIN apiLog[2].arg.updates
    /\ apiLog[3].op = "updateVideo" /\ apiLog[3].error = NULL
    /\ apiLog[3].arg = apiLog[2].arg
    /\ \A v \in videos : v.status = "completed" /\ v.videoUrl = "u2" /\ v.transcript = "hello"
    /\ Cardinality(videos) = 1

\* a field read back equals the field given: null stands for a field left out
SameField(given, stored) ==
    \/ stored = given
    \/ given \in {NULL, UNDEFINED} /\ stored = NULL

\* the record read back equals the job given in all persisted fields
SameJob(videoData, video) ==
    /\ video.videoId = videoData.videoId
    /\ video.status = videoData.status
    /\ videoData.createdAt # UNDEFINED => video.createdAt = videoData.createdAt
    /\ SameField(videoData.videoUrl, video.videoUrl)
    /\ SameField(videoData.thumbnailUrl, video.thumbnailUrl)
    /\ SameField(videoData.duration, video.duration)
    /\ SameField(videoData.avatarName, video.avatarName)
    /\ SameField(videoData.voiceName, video.voiceName)
    /\ SameField(videoData.transcript, video.transcript)

\* C16: a getVideo call for the videoId of the job that the call just before
\* it added returns a record equal to that job in all persisted fields.
C16_CreateGetRoundTrip ==
    [][ ( /\ Len(apiLog) > 0
          /\ Called.op = "addVideo"
          /\ Called.error = NULL
          /\ Calls("getVideo")
          /\ Called'.arg = Called.arg.videoId ) =>
            /\ Len(Called'.result) = 1
            /\ SameJob(Called.arg, Called'.result[1])
      ]_vars

\* the instant a record was created
CreatedAt(video) == DateParse(video.createdAt)

\* C17: whatever calls came before, getAllVideos returns every stored record
\* once, ordered by createdAt from the newest to the oldest; and when the call
\* just before it added a record newer than all others, that record is first.
C17_ListIsNewestFirst ==
    [][ Calls("getAllVideos") =>
          LET list == Called'.result IN
          /\ Len(list) = Cardinality(videos)
          /\ {list[i] : i \in 1 .. Len(list)} = videos
          /\ \A i, j \in 1 .. Len(list) : i < j => CreatedAt(list[i]) >= CreatedAt(list[j])
          /\ ( /\ Len(apiLog) > 0
               /\ Called.op = "addVideo"
               /\ Called.error = NULL
               /\ \A v \in videos :
                    v.id # Called.result =>
                        \E w \in videos : w.id = Called.result /\ CreatedAt(w) > CreatedAt(v) )
             => list[1].id = Called.result
      ]_vars

C17_Witness ==
    /\ Len(apiLog) = MaxCalls
    /\ apiLog[1].op = "addVideo" /\ apiLog[1].error = NULL
    /\ apiLog[2].op = "addVideo" /\ apiLog[2].error = NULL
    /\ Called.op = "getAllVideos"
    /\ Len(Called.result) = 2
    /\ Called.result[1].id = 2
    /\ Called.result[2].id = 1
    /\ CreatedAt(Called.result[1]) > CreatedAt(Called.result[2])

\* C18: a deleteVideo call given the job id of a record removes exactly the
\* record of that job and leaves every other record as it was, and a clearAll
\* call leaves the store empty.
C18_DeleteByJobIdRemovesRecord ==
    [][ /\ \A id \in JobIds :
             ( /\ Calls("deleteVideo")
               /\ Called'.arg.type = "string"
               /\ Called'.arg.value = id ) =>
                 videos' = {v \in videos : v.videoId # id}
        /\ Calls("clearAll") => videos' = {}
      ]_vars

\* C18, amended: a deleteVideo call given the internal key of a record removes
\* exactly that record, so that getVideo of its job id finds nothing, and
\* leaves every other record as it was; a clearAll call leaves the store empty.
C18_DeleteByKeyRemovesRecord ==
    [][ /\ \A key \in 1 .. nextKey :
             ( /\ Calls("deleteVideo")
               /\ Called'.arg.type = "number"
               /\ Called'.arg.value = key ) =>
                 /\ Called'.error = NULL
                 /\ videos' = {v \in videos : v.id # key}
                 /\ \A v \in videos :
                      v.id = key => {w \in videos' : w.videoId = v.videoId} = {}
        /\ Calls("clearAll") => videos' = {}
      ]_vars

C18_Witness ==
    /\ Len(apiLog) = 3
    /\ apiLog[1].op = "addVideo" /\ apiLog[1].arg.videoId = "j1" /\ apiLog[1].result = 1
    /\ apiLog[2].op = "addVideo" /\ apiLog[2].arg.videoId = "j2" /\ apiLog[2].result = 2
    /\ apiLog[3].op = "deleteVideo" /\ apiLog[3].arg = [type |-> "number", value |-> 1]
    /\ Cardinality(videos) = 1
    /\ \A v \in videos : v.videoId = "j2" /\ v.id = 2

\* --------------------------------- the claims about the pipeline's records

\* C19: every record the pipeline has written has no video URL, no thumbnail
\* URL and no duration unless its status is 'completed'; a record that has
\* gone to 'failed' has none of them.
C19_ResultFieldsOnlyWhenCompleted ==
    /\ \A v \in videos :
         v.status # "completed" =>
             (v.videoUrl = NULL /\ v.thumbnailUrl = NULL /\ v.duration = NULL)
    /\ \A v \in videos : v.status \in {"processing", "completed", "failed"}
    /\ (pc = "settled" /\ polled.failed > 0) =>
          \A v \in History :
             v.status = "failed" /\ v.videoUrl = NULL /\ v.thumbnailUrl = NULL /\ v.duration = NULL

C19_Witness ==
    /\ pc = "settled"
    /\ polled.failed = 1
    /\ storeOps.updated = 1
    /\ \E v \in History : v.status = "failed" /\ v.videoUrl = NULL /\ v.duration = NULL

\* C20: no step changes the videoId, the createdAt, the avatar name, the voice
\* name or the transcript of a record: after every store update of the
\* pipeline they are what addVideo wrote.
C20_CreationFieldsImmutable ==
    [][ /\ \A v \in videos : \E w \in videos' :
              /\ w.id = v.id
              /\ w.videoId = v.videoId
              /\ w.createdAt = v.createdAt
              /\ w.avatarName = v.avatarName
              /\ w.voiceName = v.voiceName
              /\ w.transcript = v.transcript
        /\ (pc = "addVideo" /\ pc' = "addVideoResolved") =>
              \E w \in videos' \ videos :
                  /\ w.videoId = videoId
                  /\ w.createdAt = toISOString(now')
                  /\ w.avatarName = Or(persona.avatarName, NULL)
                  /\ w.voiceName = VideoData.voiceName
                  /\ w.transcript = Or(transcript, NULL)
      ]_vars

C20_Witness ==
    /\ pc = "settled"
    /\ outcome.kind = "complete"
    /\ storeOps.updated = 1
    /\ \E v \in History :
          /\ v.status = "completed"
          /\ v.transcript = "hello"
          /\ v.avatarName = "Anna"
          /\ v.voiceName = "Vera"
          /\ v.createdAt = toISOString(now)

\* the run is in waitForVideoWithHistory, polling a job the provider named
InPollLoop ==
    /\ pc \in {"getVideoStatus", "updateVideo", "updateVideoResolved", "pollSleep",
               "retrySleep"}
    /\ videoId # UNDEFINED

\* the run has ended the way the job's terminal status demands
EndedAsRendered ==
    /\ pc = "settled"
    /\ remote \in {"completed", "failed"}
    /\ remote = "completed" => outcome.kind = "complete" /\ shownVideo = status.video_url
    /\ remote = "failed" =>
          outcome.kind = "error" /\ outcome.message = "Video generation failed"

C22_TranscriptionProtocol ==
    [][ /\ calls'.submitTranscription > calls.submitTranscription =>
              /\ pc = "uploadAudio" /\ calls.uploadAudio = 1
              /\ transcription'.audioUrl \in UploadUrls
              /\ transcription'.audio_url = transcription'.audioUrl
        /\ calls'.pollTranscription > calls.pollTranscription =>
              /\ calls.submitTranscription = 1
              /\ pc = "submitTranscription" \/ pc = "transcriptSleep"
              /\ transcription'.transcriptId \in TranscriptIds
              /\ pc = "transcriptSleep" =>
                    transcription'.transcriptId = transcription.transcriptId
              /\ transcription'.polledId = transcription'.transcriptId
        /\ pc = "pollTranscription" /\ reply'.result \in {"queued", "processing"} =>
              pc' = "transcriptSleep"
        /\ pc = "transcriptSleep" => pc' = "pollTranscription"
        /\ pc \in TranscriptionStages /\ pc' = "createVideo" =>
              /\ pc = "pollTranscription"
              /\ transcriptResp'.status = "completed"
              /\ transcript' = transcriptResp'.text
        /\ pc = "pollTranscription" /\ transcriptResp'.status = "error" =>
              /\ pc' = "settled"
              /\ outcome'.kind = "error"
              /\ outcome'.message = "Transcription failed: " \o transcriptResp'.error
      ]_vars

\* the text was returned after a poll that found the transcript unfinished
\* and a second poll of the same id
C22_Witness ==
    /\ pc = "createVideo"
    /\ calls.pollTranscription = 2
    /\ calls.uploadAudio = 1
    /\ calls.submitTranscription = 1
    /\ transcriptResp.status = "completed"
    /\ transcript = "hello"

\* waitForVideo has ended
WaitEnded == wait.pc \in {"returned", "thrown"}

\* C23: waitForVideo always terminates. It issues at most MAX_POLL_ATTEMPTS
\* status calls, returns the URL at the first 'completed' answer, throws the
\* render failure at the first 'failed' answer, throws the timeout exactly
\* when MAX_POLL_ATTEMPTS polls were all answered with a non-terminal status,
\* and writes nothing to the history store.
C23_BoundedWaitTerminates ==
    /\ (wait.pc # "idle") ~> WaitEnded
    /\ [](wait.polls <= MAX_POLL_ATTEMPTS)
    /\ [](wait.remote = "completed" => wait.pc = "returned" /\ wait.returned \in {"u1", "u2"})
    /\ [](wait.remote = "failed" =>
            wait.pc = "thrown" /\ wait.thrown = "Video generation failed")
    /\ [](wait.thrown = "Video generation timeout" <=>
            WaitEnded /\ wait.progress = MAX_POLL_ATTEMPTS)
    /\ [](videos = {} /\ nextKey = 1)

\* the timeout was thrown after the last permitted poll
C23_Witness ==
    /\ wait.pc = "thrown"
    /\ wait.thrown = "Video generation timeout"
    /\ wait.polls = MAX_POLL_ATTEMPTS
    /\ wait.attempts = MAX_POLL_ATTEMPTS

\* C24: in waitForVideo a status poll that fails with a transport error is
\* swallowed and the loop goes on polling, to a terminal status or the ceiling.
C24_WaitSwallowsPollError ==
    [][ wait.pc = "getVideoStatus" /\ wait'.thrown \in TransportErrors =>
          wait'.pc \in {"sleep", "getVideoStatus"} ]_vars

\* a failed asset upload or render submission ends the run on the spot
FailsAtOnce ==
    pc \in {"uploadAsset", "createVideo"} /\ reply'.result = "error" =>
        /\ pc' = "settled"
        /\ outcome'.kind = "error"
        /\ calls' = calls
        /\ videos' = videos
        /\ storeOps'.addVideo = 0
        /\ calls'.getVideoStatus = 0

\* C25: within one run uploadAsset is called at most once and the render
\* submission at most once; when either fails, with a transport error or a
\* non-success response, nothing is sent again and the run ends at once with
\* an error: no history record is created and no status poll is issued.
C25_UploadAndSubmitNotRetried ==
    [][ /\ FailsAtOnce
        /\ calls'.uploadAsset <= 1
        /\ calls'.createVideo <= 1
      ]_vars

\* a run ended by a render submission the provider refused, after the audio
\* asset had been uploaded
C25_Witness ==
    /\ pc = "settled"
    /\ outcome.stage = "createVideo"
    /\ outcome.message = "Failed to create video: "
    /\ calls.uploadAsset = 1
    /\ calls.createVideo = 1
    /\ videos = {}

\* the message generateVideo reports when the audio upload was blocked
TransportBlocked == "CORS Error: Cannot upload audio from localhost."

\* the run ends on the spot, with no render job submitted
NoRenderJob ==
    /\ pc' = "settled"
    /\ outcome'.kind = "error"
    /\ calls'.createVideo = 0
    /\ request' = request

\* C26: in custom-voice mode an audio upload that fails with a cross-origin
\* or transport error ends the run with the transport-blocked error, which
\* differs from the error of a non-success response and from the error of a
\* failed re-encoding; in none of the three cases is a render job submitted.
C26_TransportBlockedReported ==
    [][ /\ pc = "uploadAsset" /\ reply'.error \in TransportErrors =>
              NoRenderJob /\ outcome'.message = TransportBlocked
        /\ pc = "uploadAsset" /\ reply'.error = "Failed to upload asset: " =>
              NoRenderJob /\ outcome'.message # TransportBlocked
        /\ pc = "convertWebMToMP3" /\ reply'.result = "error" =>
              NoRenderJob /\ outcome'.message # TransportBlocked
      ]_vars

\* remote calls of the transcription service in the current run
TranscriptionCalls == calls.uploadAudio + calls.submitTranscription + calls.pollTranscription

\* C27: the voice mode decides the branch, and the branches exclude each
\* other. A preset-voice run calls the transcription service, never uploads an
\* audio asset, and submits a text voice with the voice id and the text; a
\* custom-voice run uploads the re-encoded audio exactly once, never calls
\* the transcription service, and submits an audio voice whose asset id is the
\* id that upload returned, with no transcript stored.
C27_VoiceBranchExclusive ==
    /\ voiceSelection.type = "preset" =>
          /\ calls.uploadAsset = 0
          /\ calls.uploadAudio = 1
          /\ calls.createVideo > 0 =>
                /\ TranscriptionCalls >= 3
                /\ request.voice = [ type |-> "text",
                                     voice_id |-> voiceSelection.voice.voice_id,
                                     input_text |-> transcript,
                                     audio_asset_id |-> UNDEFINED ]
    /\ voiceSelection.type = "custom" =>
          /\ TranscriptionCalls = 0
          /\ calls.uploadAsset <= 1
          /\ calls.createVideo > 0 =>
                /\ calls.uploadAsset = 1
                /\ voiceConfig.audio_asset_id \in AssetIds
                /\ request.voice = [ type |-> "audio", voice_id |-> UNDEFINED,
                                     input_text |-> UNDEFINED,
                                     audio_asset_id |-> voiceConfig.audio_asset_id ]
                /\ transcript = NULL
                /\ \A video \in History : video.transcript = NULL

\* a custom-voice run has its record in the history and polls the job
C27_Witness ==
    /\ voiceSelection.type = "custom"
    /\ pc = "getVideoStatus"
    /\ History # {}
    /\ request.voice.type = "audio"
    /\ request.voice.audio_asset_id = "asset1"

\* C28: a run that passed validation and submitted a render job had exactly
\* one persona source selected, a preset avatar or a custom character, and the
\* character spec it sent was built from that one.
C28_ExactlyOnePersonaSource ==
    calls.createVideo > 0 =>
        /\ (persona.avatar # NoAvatar) # (persona.character # NoCharacter)
        /\ persona.character # NoCharacter =>
              request.character = CharacterConfig(NoAvatar, persona.character)
        /\ persona.avatar # NoAvatar =>
              request.character = CharacterConfig(persona.avatar, NoCharacter)

\* C29: getSelectedVoice answers nothing, or exactly one of the custom mode
\* and a preset with a voice id; a preset answer carries the voice selected
\* last (only selectVoice changes it, to the voice it is given, and a toggle
\* to custom and back keeps it); generateVideo goes past validation only when
\* the answer is not nothing.
C29_ExactlyOneVoiceMode ==
    [][ /\ getSelectedVoice'.type \in {NULL, "custom", "preset"}
        /\ getSelectedVoice'.type = "preset" =>
              /\ ~useCustomVoice'
              /\ getSelectedVoice'.voice = selectedVoice'
              /\ getSelectedVoice'.voice \in PresetVoices
        /\ getSelectedVoice'.type = "custom" => getSelectedVoice'.voice = NoVoice
        /\ getSelectedVoice'.type = NULL => ~useCustomVoice' /\ selectedVoice' = NoVoice
        /\ \/ selectedVoice' = selectedVoice
           \/ \E voice \in PresetVoices :
                selectVoice(voice) /\ getSelectedVoice' = [type |-> "preset", voice |-> voice]
        /\ runs' > runs /\ getSelectedVoice.type = NULL => pc' = "idle" /\ calls' = calls
        /\ pc = "idle" /\ pc' # "idle" => voiceSelection' = getSelectedVoice
      ]_vars

\* a run was started with the second voice of the list
C29_Witness ==
    /\ runs = 1
    /\ pc = "uploadAudio"
    /\ ~useCustomVoice
    /\ voiceSelection = [type |-> "preset", voice |-> [voice_id |-> "v2", voice_name |-> "Will"]]

\* C30: the content type uploadAsset sends. For kind audio: audio/mpeg when
\* the bytes are tagged audio/mpeg or audio/mp3, audio/x-wav for every other
\* tag (the wav variants, webm, no tag). For kind image: the detected MIME
\* type, and image/jpeg only when none was detected.
C30_ContentTypeByKind ==
    asset.pc # "idle" =>
        /\ asset.type = "audio" =>
              /\ asset.blobType \in {"audio/mpeg", "audio/mp3"} =>
                    asset.contentType = "audio/mpeg"
              /\ asset.blobType \notin {"audio/mpeg", "audio/mp3"} =>
                    asset.contentType = "audio/x-wav"
        /\ asset.type = "image" =>
              /\ asset.blobType # "" => asset.contentType = asset.blobType
              /\ asset.blobType = "" => asset.contentType = "image/jpeg"

\* a webm recording was uploaded as audio and accepted
C30_Witness ==
    /\ asset.pc = "returned"
    /\ asset.type = "audio"
    /\ asset.blobType = "audio/webm"
    /\ asset.contentType = "audio/x-wav"

\* C31: a status poll answered with a non-terminal status is followed by one
\* progress notification, then the sleep and the next poll; the elapsed value
\* it carries is 3 seconds times the number of earlier polls of the run, the
\* failed ones included, so it grows from one notification to the next; a
\* poll that failed with a transport error emits none.
C31_ProgressElapsed ==
    [][ /\ pc = "getVideoStatus" /\ reply'.result = "processing" =>
              /\ modal'.text = "Generating video..."
              /\ modal'.elapsed = 3 * (calls.getVideoStatus - 1)
              /\ modal.text = "Generating video..." => modal'.elapsed > modal.elapsed
              /\ pc' = "pollSleep"
        /\ pc = "getVideoStatus" /\ reply'.result = "error" => modal' = modal
        /\ pc \in {"pollSleep", "retrySleep"} =>
              /\ modal' = modal
              /\ calls'.getVideoStatus = calls.getVideoStatus + 1
      ]_vars

\* the second progress notification of a run whose poll in between failed:
\* 6 seconds after the first
C31_Witness ==
    /\ pc = "pollSleep"
    /\ polled.processing = 2
    /\ polled.error = 1
    /\ modal = [text |-> "Generating video...", elapsed |-> 6]

\* the stages of a run that come before the render submission was accepted
BeforeAccepted ==
    {"idle", "uploadAudio", "submitTranscription", "pollTranscription", "transcriptSleep",
     "convertWebMToMP3", "uploadAsset", "createVideo"}

\* C32: generateVideo writes to the history store only after createVideo has
\* returned successfully: a run that ends in a validation failure, a
\* transcription failure, a re-encoding failure, an upload failure or a
\* refused submission leaves the store exactly as it was.
C32_RecordOnlyAfterAccepted ==
    [][ /\ pc \in BeforeAccepted => store' = store
        /\ store' # store =>
              /\ pc \in {"addVideo", "updateVideo"}
              /\ calls.createVideo = 1
              /\ pc = "addVideo" => reply.to = "createVideo" /\ reply.result = "ok"
              /\ pc = "updateVideo" => History # {}
      ]_vars

\* a run ended by a failed asset upload: nothing was submitted, nothing stored
C32_Witness ==
    /\ pc = "settled"
    /\ outcome.stage = "uploadAsset"
    /\ calls.createVideo = 0
    /\ storeOps.addVideo = 0
    /\ videos = {}
    /\ nextKey = 1

\* C33: the record of a submitted job names the persona that was rendered:
\* its persona id and label are those of the custom character, or of the
\* preset avatar, whose reference went into the character spec of the render
\* job, also when an avatar and a character are both selected.
C33_RecordedPersonaIsRendered ==
    \A video \in History :
        /\ request.character.type = "photo" =>
              /\ video.avatarId = request.character.photo_id
              /\ video.avatarName = persona.character.name
        /\ request.character.type = "avatar" =>
              /\ video.avatarId = request.character.avatar_id
              /\ video.avatarName = persona.avatar.avatar_name

\* C34: whenever a run completes successfully the store holds a record of the
\* job with status 'completed' whose result URL is the URL the run returned
\* and showed, and whose thumbnail and duration are those of the same
\* 'completed' poll response.
C34_CompletedRecordMatchesShown ==
    pc = "settled" /\ outcome.kind = "complete" =>
        /\ Cardinality(History) = 1
        /\ status.status = "completed"
        /\ \A video \in History :
              /\ video.status = "completed"
              /\ video.videoUrl = shownVideo
              /\ video.videoUrl = status.video_url
              /\ video.thumbnailUrl = status.thumbnail_url
              /\ video.duration = status.duration

\* a run completed with the second answer after the update for a first
\* 'completed' answer had been rejected
C34_Witness ==
    /\ pc = "settled"
    /\ outcome.kind = "complete"
    /\ polled.completed = 2
    /\ shownVideo = "u2"
    /\ \E video \in History : video.videoUrl = "u2" /\ video.duration = ZERO

\* C35: every record a run creates has a defined job id: when the provider
\* answers the render submission with a success that carries no video id,
\* the run fails, creates no history record and starts no polling.
C35_RecordHasJobId ==
    /\ \A video \in videos : video.videoId \notin {UNDEFINED, NULL}
    /\ videoId = UNDEFINED => calls.getVideoStatus = 0 /\ storeOps.added = 0

\* C36: getTranscript does not retry: a transport error or a non-success
\* response on the upload, on the submit or on any poll fails it at once, and
\* no further remote call is made for that transcription.
C36_TranscriptionNotRetried ==
    [][ /\ pc \in TranscriptionStages /\ reply'.result = "error" =>
              /\ pc' = "settled"
              /\ outcome'.kind = "error"
              /\ outcome'.stage = pc
              /\ calls' = calls
              /\ transcription' = NoTranscription
        /\ pc \in TranscriptionStages /\ pc' = "settled" => reply'.result = "error"
      ]_vars

\* the second poll of a transcript was lost on the network: the run ended
\* after two polls
C36_Witness ==
    /\ pc = "settled"
    /\ outcome.stage = "pollTranscription"
    /\ outcome.message = FetchFailed
    /\ calls.pollTranscription = 2
    /\ calls.uploadAudio = 1
    /\ calls.submitTranscription = 1

\* the uploadCharacter calls made so far
Uploads == { i \in DOMAIN charCalls : charCalls[i].op = "uploadCharacter" }

\* the file passes uploadCharacter's validation
Accepted(file) == file.type \in SUPPORTED_FORMATS /\ file.size <= MAX_FILE_SIZE

\* an upload that was rejected never saved anything; one turned down by the
\* validation never reached the remote upload; one that saved had an asset id
UploadsInOrder ==
    /\ \A i \in Uploads :
         /\ ~Accepted(charCalls[i].file) =>
               /\ charCalls[i].pc = "rejected"
               /\ charCalls[i].error \in {UnsupportedFormat, FileTooLarge}
               /\ charCalls[i].data.heygenId = NULL
         /\ charCalls[i].pc = "rejected" => charCalls[i].key = 0
         /\ charCalls[i].pc \in {"arrayBuffer", "saved", "resolved"} =>
               ~Falsy(charCalls[i].data.heygenId)
         /\ charCalls[i].pc \in {"saved", "resolved"} =>
               \/ \E c \in characterDb : /\ c.id = charCalls[i].key
                                         /\ c.heygenId = charCalls[i].data.heygenId
               \/ ~charCalls[i].alone
    /\ \A c \in characterDb : ~Falsy(c.heygenId)
    /\ \A k \in DOMAIN characters : ~Falsy(characters[k].heygenId)

\* the upload call i fails in this step
UploadFails(i) ==
    /\ charCalls'[i].op = "uploadCharacter"
    /\ charCalls'[i].pc = "rejected"
    /\ i \in DOMAIN charCalls => charCalls[i].pc # "rejected"

\* C37: uploadCharacter rejects a file of an unsupported format or over the
\* size limit before any remote call; it saves a character only after the
\* remote upload returned an asset id, so every stored character has one; and
\* an upload that fails leaves the store and the in-memory list as they were.
C37_UploadBeforeSave ==
    [][ /\ UploadsInOrder'
        /\ \A i \in DOMAIN charCalls' :
             UploadFails(i) =>
                /\ characterDb' = characterDb
                /\ characters' = characters
                /\ charCalls'[i].alone =>
                      /\ characterDb' = charCalls'[i].before
                      /\ characters' = charCalls'[i].listBefore
        /\ characters' # characters =>
             \E i \in Uploads : /\ charCalls[i].pc = "saved"
                                /\ charCalls'[i].pc = "resolved"
                                /\ \E c \in characterDb :
                                     c.id = charCalls[i].key ]_vars

\* one upload went through to the list, and another failed on an asset
\* without an id after the remote upload
C37_Witness ==
    /\ \E i \in Uploads : /\ charCalls[i].pc = "resolved"
                          /\ \E c \in characterDb : /\ c.id = charCalls[i].key
                                                    /\ c.heygenId = "img7"
                          /\ \E k \in DOMAIN characters :
                               characters[k].id = charCalls[i].key
    /\ \E i \in Uploads : /\ charCalls[i].pc = "rejected"
                          /\ charCalls[i].error = NoAssetId
                          /\ charCalls[i].alone

\* the characters marked as the default
Defaults == { c \in characterDb : c.isDefault }

\* C38: in every reachable state of the character store at most one character
\* is the default, whatever the order and the interleaving of saveCharacter
\* calls with isDefault set and setDefaultCharacter calls.
C38_AtMostOneDefault == Cardinality(Defaults) <= 1

\* call i is a setDefaultCharacter for an id the store did not hold, made and
\* carried out with no other call under way, and it settles in this step
MissingIdSettles(i) ==
    /\ charCalls[i].op = "setDefaultCharacter"
    /\ Running(charCalls[i])
    /\ ~Running(charCalls'[i])
    /\ charCalls'[i].alone
    /\ \A c \in charCalls[i].before : c.id # charCalls[i].id

\* C39: setDefaultCharacter(id) with an id that is not in the store rejects
\* with 'Character not found' and leaves the store as it was: the previous
\* default is still the default.
C39_MissingIdLeavesStore ==
    [][ \A i \in DOMAIN charCalls :
          MissingIdSettles(i) =>
             /\ charCalls'[i].pc = "rejected"
             /\ charCalls'[i].error = CharacterNotFound =>
                   /\ characterDb' = charCalls[i].before
                   /\ { c \in characterDb' : c.isDefault }
                        = { c \in charCalls[i].before : c.isDefault } ]_vars

\* the recorder apart from the note of an ignored call
RecorderState(r) == [r EXCEPT !.ignored = NULL]

\* C40: a recording is never stopped by a timeout before it has run for
\* MAX_DURATION: the timeout armed by one recording stops only that recording,
\* never a later one started after the earlier one was stopped by hand; and
\* startRecording while recording, like stopRecording while not recording,
\* changes nothing.
C40_AutoStopOnlyOwnRecording ==
    [][ /\ recorder.isRecording /\ ~recorder'.isRecording
           /\ recorder'.timeouts # recorder.timeouts =>
              /\ recorder'.lastStop.ran >= MAX_DURATION
              /\ recorder'.lastStop.armedBy = recorder'.lastStop.recording
        /\ recorder'.ignored # NULL /\ recorder'.ignored # recorder.ignored =>
              RecorderState(recorder') = RecorderState(recorder) ]_vars
====
